---- MODULE Spec2Model ----
(***************************************************************************)
(* Model of the info screen web server (server/webserver.js): the image    *)
(* catalog kept in memory (this.images), its mirror on disk                *)
(* (data/images.json), the image and thumbnail directories, the HTTP       *)
(* handlers for upload / update / delete, and the two WebSocket server     *)
(* groups (display clients on 8081, control clients on 8082).              *)
(*                                                                         *)
(* A handler body runs to completion between two of its awaits; every      *)
(* action below is one such run-to-completion segment.                     *)
(***************************************************************************)
EXTENDS Integers, Sequences, FiniteSets, TLC

(***************************************************************************)
(* Bounds of the model.                                                    *)
(***************************************************************************)
\* number of HTTP mutation requests handled in one behaviour of Spec
MaxReqs == 2
\* number of HTTP mutation requests handled in one behaviour of SpecFew
FewReqs == 1
\* number of HTTP mutation requests handled in one behaviour of SpecOverlap
MaxSlots == 3
\* number of milliseconds that pass in one behaviour
MaxTicks == 1
\* Date.now() when the process starts (far above any id loadImages assigns)
StartTime == 10
\* number of frames the clients of the two hubs send in one behaviour
MaxFrames == 2
\* number of components of the version strings compared in SpecVersion
MaxParts == 2
\* config.maxBackups as the configuration file sets it (5 when it sets none)
maxBackups == 2

\* limits.fileSize of multer when the configuration names none
MaxFileSize == 5242880

Slots == 1..MaxSlots
\* the sockets of the two server groups, each in the order in which they connect
Displays == {"d1", "d2"}
Controls == {"k1", "k2"}
Earlier(c) ==
    CASE c = "d2" -> {"d1"}
      [] c = "k2" -> {"k1"}
      [] OTHER -> {}

(***************************************************************************)
(* File names.  A name is modelled by its two parts, as path.parse and     *)
(* path.extname split it: base (path.parse(f).name) and ext                *)
(* (path.extname(f), with its dot, "" when there is none).                 *)
(***************************************************************************)
FileName(base, ext) == [base |-> base, ext |-> ext]

Extname(file) == file.ext

ParseName(file) == file.base

ToLowerCase(s) ==
    CASE s = ".JPG" -> ".jpg"
      [] s = ".PNG" -> ".png"
      [] s = ".EXE" -> ".exe"
      [] OTHER -> s

\* config.images.allowedExtensions: the value of the configuration file, here
\* the list the thumbnail generator uses for the same directory
AllowedExtensions == {".jpg", ".jpeg", ".png", ".gif"}

(***************************************************************************)
(* Sequence helpers.                                                       *)
(***************************************************************************)
\* Array.prototype.splice(index, 1) for index >= 0 (1-based position here):
\* removes the element at that position when there is one
Splice(s, pos) ==
    [i \in 1..(IF pos \in 1..Len(s) THEN Len(s) - 1 ELSE Len(s)) |->
        IF pos \in 1..Len(s) /\ i >= pos THEN s[i + 1] ELSE s[i]]

RemoveFile(dir, file) == SelectSeq(dir, LAMBDA f : f # file)

InDir(dir, file) == \E i \in 1..Len(dir) : dir[i] = file

(***************************************************************************)
(* Request slots and responses.                                            *)
(***************************************************************************)
\* a request slot not yet used, and one whose handler has ended
Idle == [kind |-> "none", pc |-> "idle"]
Ended == [kind |-> "none", pc |-> "done"]

\* no response was written in the last step
NoResponse == <<>>

\* the response written to request r, which was a `kind` request
Reply(r, kind, resp) ==
    <<[slot |-> r, kind |-> kind, status |-> resp.status, body |-> resp.body]>>

(***************************************************************************)
(* The auto-update system (auto-update.js).  A version string is modelled  *)
(* by the sequence of its characters.                                      *)
(***************************************************************************)
Digits == {"0", "1", "2", "3", "4", "5", "6", "7", "8", "9"}

DigitValue(c) ==
    CASE c = "0" -> 0 [] c = "1" -> 1 [] c = "2" -> 2 [] c = "3" -> 3
      [] c = "4" -> 4 [] c = "5" -> 5 [] c = "6" -> 6 [] c = "7" -> 7
      [] c = "8" -> 8 [] c = "9" -> 9

RECURSIVE Decimal(_)
Decimal(part) ==
    IF part = <<>> THEN 0
    ELSE 10 * Decimal(SubSeq(part, 1, Len(part) - 1)) + DigitValue(part[Len(part)])

\* Number(part): <<n>> for a decimal numeral, <<0>> for the empty string,
\* <<>> (NaN) for anything else
Number(part) ==
    IF \A i \in 1..Len(part) : part[i] \in Digits THEN <<Decimal(part)>> ELSE <<>>

\* version.replace(/^v/, '')
ReplaceV(version) ==
    IF version # <<>> /\ version[1] = "v" THEN Tail(version) ELSE version

\* clean.split('.')
RECURSIVE Split(_)
Split(clean) ==
    IF \E i \in 1..Len(clean) : clean[i] = "."
    THEN LET i == CHOOSE k \in 1..Len(clean) :
                      clean[k] = "." /\ \A j \in 1..(k - 1) : clean[j] # "."
         IN  <<SubSeq(clean, 1, i - 1)>> \o Split(SubSeq(clean, i + 1, Len(clean)))
    ELSE <<clean>>

\* version.replace(/^v/, '').split('.').map(Number)
Parts(version) ==
    LET pieces == Split(ReplaceV(version))
    IN  [i \in 1..Len(pieces) |-> Number(pieces[i])]

\* variant: a missing component reads as -1, below every number
PartOrBelow(parts, i) ==
    IF i \in 1..Len(parts)
    THEN IF parts[i] = <<>> THEN 0 ELSE parts[i][1]
    ELSE -1

\* parts[i] || 0: 0 for a missing component (undefined), for NaN and for 0
PartOrZero(parts, i) ==
    IF i \in 1..Len(parts) /\ parts[i] # <<>> THEN parts[i][1] ELSE 0

\* the loop of isNewerVersion from position i on
RECURSIVE NewerFrom(_, _, _)
NewerFrom(latestParts, currentParts, i) ==
    IF i > Len(latestParts) /\ i > Len(currentParts) THEN FALSE
    ELSE LET latestPart == PartOrZero(latestParts, i)
             currentPart == PartOrZero(currentParts, i)
         IN  IF latestPart > currentPart THEN TRUE
             ELSE IF latestPart < currentPart THEN FALSE
             ELSE NewerFrom(latestParts, currentParts, i + 1)

IsNewerVersion(latest, current) == NewerFrom(Parts(latest), Parts(current), 1)

\* config.currentVersion of the constructor
DefaultVersion == <<"1", ".", "0", ".", "0">>

\* tag_name of the latest release, as fetchLatestRelease may return it
Releases == { <<"v", "1", ".", "1", ".", "0">> }

\* the version strings with up to MaxParts components
Components == { <<"0">>, <<"1">>, <<"1", "0">> }

RECURSIVE Join(_)
Join(parts) ==
    IF Len(parts) = 1 THEN parts[1]
    ELSE parts[1] \o <<".">> \o Join(Tail(parts))

VersionStrings ==
    UNION { {Join(p), <<"v">> \o Join(p)} :
            p \in UNION { [1..n -> Components] : n \in 1..MaxParts } }

(***************************************************************************)
(* The installation directory, the downloaded update and the backups.  The *)
(* content of a directory is the set of origins of its files; a file that  *)
(* does not exist has the empty content.                                   *)
(***************************************************************************)
Items == {"package.json", "config.json", "server", "public", "images",
          "thumbnails", "logs", "node_modules", "README.md"}

IsDirectory(item) ==
    item \in {"server", "public", "images", "thumbnails", "logs", "node_modules"}

PackageJson(version, deps) == {[version |-> version, deps |-> deps]}

InitialRoot(version) ==
    [item \in Items |->
        CASE item = "package.json" -> PackageJson(version, "installed")
          [] item = "config.json" -> {[version |-> <<>>]}
          [] item \in {"images", "thumbnails"} -> {"user"}
          [] item = "logs" -> {}
          [] OTHER -> {"installed"}]

\* fs.copyFile overwrites the destination; copyDirectory copies every file of
\* the source into the destination and removes none
Copy(item, source, destination) ==
    IF IsDirectory(item) THEN destination \cup source ELSE source

\* what the extracted archive of the release may hold: the application, the
\* application with data directories, an application without public/index.html
Downloads(tag) ==
    { [items |-> {"package.json", "server", "public", "README.md"},
       indexHtml |-> TRUE, version |-> ReplaceV(tag), deps |-> "update"],
      [items |-> Items \ {"config.json"},
       indexHtml |-> TRUE, version |-> ReplaceV(tag), deps |-> "installed"],
      [items |-> {"package.json", "server", "public"},
       indexHtml |-> FALSE, version |-> ReplaceV(tag), deps |-> "update"] }

\* the content of a top-level item of the downloaded update
UpdateItem(update, item) ==
    IF item = "package.json" THEN PackageJson(update.version, update.deps)
    ELSE {"update"}

\* this.log(message) for each of the messages in turn: the message is
\* appended to logs/auto-update.log, which is modelled by its last line
Log(rt, messages) ==
    IF messages = <<>> THEN rt
    ELSE [rt EXCEPT !["logs"] = {messages[Len(messages)]}]

\* the instances of AutoUpdateSystem that may exist at one time
Updaters == {"u1", "u2"}

Null == <<>>

NoInstance ==
    [created |-> FALSE, origin |-> "none", cli |-> "none", configLoaded |-> FALSE,
     currentVersion |-> DefaultVersion, updateInProgress |-> FALSE,
     tick |-> FALSE, auto |-> "none", pc |-> "none", backupPath |-> Null,
     updatePath |-> Null, error |-> Null, restored |-> Null, sent |-> <<>>,
     updateCheck |-> Null, result |-> Null]

\* an instance whose process has ended
Gone == [NoInstance EXCEPT !.origin = "gone"]

\* new AutoUpdateSystem(): the constructor, up to the first await of init()
NewInstance(origin, cli) ==
    [NoInstance EXCEPT !.created = TRUE, !.origin = origin, !.cli = cli]

\* the backups a former run left, each made one millisecond after the other
Backup(time, version, rt) ==
    [name |-> <<time, version>>, timestamp |-> time, version |-> version,
     files |-> [item \in {"package.json", "config.json", "server", "public",
                          "images", "thumbnails"} |-> rt[item]]]

InitialBackups ==
    { { Backup(StartTime - k, DefaultVersion, InitialRoot(DefaultVersion)) :
            k \in 1..n } : n \in 0..maxBackups }

VARIABLES
    loaded,       \* init() has finished loadImages and started the HTTP server
    now,          \* Date.now() as last read, in milliseconds
    imageDir,     \* listing of the images directory
    thumbs,       \* files of the thumbnails directory
    images,       \* this.images
    catalogFile,  \* content of data/images.json: <<>> (no file) or <<catalog>>
    reqs,         \* the HTTP mutation requests: position and locals of each
    response,     \* the HTTP response written in the last step, if any
    dstate,       \* display sockets: "none" (not in wss.clients), "open", "closing"
    dsent,        \* frames sent by the server to each display socket
    din,          \* frames sent by each display client, not yet handled
    cstate,       \* control sockets
    csent,        \* frames sent by the server to each control socket
    cin,          \* frames sent by each control client, not yet handled
    frames,       \* how many frames clients sent (bounds the model)
    upd,          \* the AutoUpdateSystem objects and the position of their calls
    root,         \* the installation directory: content of each top-level item
    backups       \* the backups with a manifest in .update/backups

vars == <<loaded, now, imageDir, thumbs, images, catalogFile, reqs,
          response, dstate, dsent, din, cstate, csent, cin, frames,
          upd, root, backups>>

storeVars == <<imageDir, thumbs, images, catalogFile>>
hubVars == <<dstate, dsent, din, cstate, csent, cin, frames>>
updVars == <<upd, root, backups>>

(***************************************************************************)
(* The clock.  Date.now() is read by the handlers only; a read yields the  *)
(* time of the last read or a later one.                                   *)
(***************************************************************************)
Clock == {t \in now..(now + 1) : t <= StartTime + MaxTicks}

(***************************************************************************)
(* loadImages (webserver.js 505-531)                                       *)
(***************************************************************************)
\* variant: the extension is compared without lower-casing it
AllowedFileCaseSensitive(file) == Extname(file) \in AllowedExtensions

AllowedFile(file) == ToLowerCase(Extname(file)) \in AllowedExtensions

LoadRecord(file, index, time) ==
    [id |-> index, filename |-> file, title |-> ParseName(file),
     description |-> "", order |-> index, active |-> TRUE, uploaded |-> time]

\* readable: whether fs.readdir succeeded (the catch yields the empty catalog)
LoadImages(dir, readable, time) ==
    IF ~readable THEN <<>>
    ELSE LET kept == SelectSeq(dir, AllowedFile)
         IN  [i \in 1..Len(kept) |-> LoadRecord(kept[i], i, time)]

\* directory listings the server may find at start
InitialDirs ==
    { <<FileName("a", ".jpg"), FileName("notes", ".txt"), FileName("b", ".PNG")>> }

InitServer ==
    /\ loaded = FALSE
    /\ now = StartTime
    /\ imageDir \in InitialDirs
    /\ thumbs = {}
    /\ images = <<>>
    /\ catalogFile = <<>>
    /\ reqs = [r \in Slots |-> Idle]
    /\ response = NoResponse
    /\ dstate = [c \in Displays |-> "none"]
    /\ dsent = [c \in Displays |-> <<>>]
    /\ din = [c \in Displays |-> <<>>]
    /\ cstate = [c \in Controls |-> "none"]
    /\ csent = [c \in Controls |-> <<>>]
    /\ cin = [c \in Controls |-> <<>>]
    /\ frames = 0

\* no AutoUpdateSystem exists yet; the installation is that of DefaultVersion
Init ==
    /\ InitServer
    /\ upd = [i \in Updaters |-> NoInstance]
    /\ root = InitialRoot(DefaultVersion)
    /\ backups = {}

(***************************************************************************)
(* Frames of the two WebSocket channels.  JSON.stringify drops a property  *)
(* whose value is undefined, so a frame built from an undefined value      *)
(* lacks that field.                                                       *)
(***************************************************************************)
\* variant: the list drops the records that are not active
ImagesListActiveOnly(imgs) ==
    [type |-> "images-list",
     images |-> SelectSeq(imgs, LAMBDA image : image.active)]

ImagesListMsg(imgs) == [type |-> "images-list", images |-> imgs]

ImageUploadedMsg(image) == [type |-> "image-uploaded", image |-> image]

\* this.images[index] read after the save: undefined when index is past the end
ImageUpdatedMsg(imgs, index) ==
    IF index \in 1..Len(imgs)
    THEN [type |-> "image-updated", image |-> imgs[index]]
    ELSE [type |-> "image-updated"]

ImageDeletedMsg(imageId) == [type |-> "image-deleted", imageId |-> imageId]

CurrentSlideMsg(slideIndex) == [type |-> "current-slide", slideIndex |-> slideIndex]

\* variant: the relayed play state is the opposite of the reported one
PlayStateToggled(isPlaying) == [type |-> "play-state", isPlaying |-> ~isPlaying]

PlayStateMsg(isPlaying) == [type |-> "play-state", isPlaying |-> isPlaying]

\* variant: the relayed frame always names the first slide
NavigateToFirst(slideIndex) == [type |-> "navigate-to", slideIndex |-> 0]

NavigateToMsg(slideIndex) == [type |-> "navigate-to", slideIndex |-> slideIndex]

PlayPauseMsg(isPlaying) == [type |-> "play-pause", isPlaying |-> isPlaying]

\* variant: the readyState test is inverted, open sockets are skipped
BroadcastToNotOpen(state, sent, msg) ==
    [c \in DOMAIN sent |->
        IF state[c] # "open" THEN Append(sent[c], msg) ELSE sent[c]]

\* variant: no readyState test, every socket of the group is sent the frame
BroadcastToEvery(state, sent, msg) ==
    [c \in DOMAIN sent |-> Append(sent[c], msg)]

\* wss.clients.forEach(client => { if (client.readyState === OPEN) client.send })
\* applied to the sockets of one server group: state and sent are per socket
BroadcastTo(state, sent, msg) ==
    [c \in DOMAIN sent |->
        IF state[c] = "open" THEN Append(sent[c], msg) ELSE sent[c]]

\* broadcastToAll: the display group
BroadcastToAll(msg) == BroadcastTo(dstate, dsent, msg)

\* broadcastToControl: the control group
BroadcastToControl(msg) == BroadcastTo(cstate, csent, msg)

\* frames a display client sends and a control client sends
DisplayFrames ==
    { [type |-> "slide-changed", slideIndex |-> 3],
      [type |-> "current-slide", slideIndex |-> 3],
      [type |-> "play-state", isPlaying |-> FALSE] }
ControlFrames ==
    { [type |-> "navigate", slideIndex |-> 3],
      [type |-> "playPause", isPlaying |-> TRUE],
      [type |-> "request-images"] }

(***************************************************************************)
(* setupWebSocket (webserver.js 382-436)                                   *)
(***************************************************************************)
\* wss 'connection': the socket is in wss.clients, open, and is sent the list
DisplayConnect(c) ==
    /\ dstate[c] = "none"
    /\ \A e \in Earlier(c) : dstate[e] # "none"
    /\ dstate' = [dstate EXCEPT ![c] = "open"]
    /\ dsent' = [dsent EXCEPT ![c] = <<ImagesListMsg(images)>>]
    /\ response' = NoResponse
    /\ UNCHANGED <<loaded, now, reqs, din, cstate, csent, cin, frames>>
    /\ UNCHANGED storeVars
    /\ UNCHANGED updVars

\* the closing handshake starts: readyState is CLOSING, the socket is still
\* in wss.clients; frames it sent are no longer handled
DisplayClosing(c) ==
    /\ dstate[c] = "open"
    /\ dstate' = [dstate EXCEPT ![c] = "closing"]
    /\ din' = [din EXCEPT ![c] = <<>>]
    /\ response' = NoResponse
    /\ UNCHANGED <<loaded, now, reqs, dsent, cstate, csent, cin, frames>>
    /\ UNCHANGED storeVars
    /\ UNCHANGED updVars

\* 'close': the socket leaves wss.clients and is dropped
DisplayClosed(c) ==
    /\ dstate[c] \in {"open", "closing"}
    /\ dstate' = [dstate EXCEPT ![c] = "none"]
    /\ dsent' = [dsent EXCEPT ![c] = <<>>]
    /\ din' = [din EXCEPT ![c] = <<>>]
    /\ response' = NoResponse
    /\ UNCHANGED <<loaded, now, reqs, cstate, csent, cin, frames>>
    /\ UNCHANGED storeVars
    /\ UNCHANGED updVars

\* variant: the connection handler sends no initial frame
ControlConnectNoGreeting(k) ==
    /\ cstate[k] = "none"
    /\ \A e \in Earlier(k) : cstate[e] # "none"
    /\ cstate' = [cstate EXCEPT ![k] = "open"]
    /\ csent' = [csent EXCEPT ![k] = <<>>]
    /\ response' = NoResponse
    /\ UNCHANGED <<loaded, now, reqs, dstate, dsent, din, cin, frames>>
    /\ UNCHANGED storeVars
    /\ UNCHANGED updVars

\* controlWss 'connection': the socket is sent current-slide 0
ControlConnect(k) ==
    /\ cstate[k] = "none"
    /\ \A e \in Earlier(k) : cstate[e] # "none"
    /\ cstate' = [cstate EXCEPT ![k] = "open"]
    /\ csent' = [csent EXCEPT ![k] = <<CurrentSlideMsg(0)>>]
    /\ response' = NoResponse
    /\ UNCHANGED <<loaded, now, reqs, dstate, dsent, din, cin, frames>>
    /\ UNCHANGED storeVars
    /\ UNCHANGED updVars

ControlClosing(k) ==
    /\ cstate[k] = "open"
    /\ cstate' = [cstate EXCEPT ![k] = "closing"]
    /\ cin' = [cin EXCEPT ![k] = <<>>]
    /\ response' = NoResponse
    /\ UNCHANGED <<loaded, now, reqs, dstate, dsent, din, csent, frames>>
    /\ UNCHANGED storeVars
    /\ UNCHANGED updVars

ControlClosed(k) ==
    /\ cstate[k] \in {"open", "closing"}
    /\ cstate' = [cstate EXCEPT ![k] = "none"]
    /\ csent' = [csent EXCEPT ![k] = <<>>]
    /\ cin' = [cin EXCEPT ![k] = <<>>]
    /\ response' = NoResponse
    /\ UNCHANGED <<loaded, now, reqs, dstate, dsent, din, frames>>
    /\ UNCHANGED storeVars
    /\ UNCHANGED updVars

\* a display client sends a frame (the client side of the display channel)
DisplaySend(c, frame) ==
    /\ dstate[c] = "open"
    /\ frames < MaxFrames
    /\ frames' = frames + 1
    /\ din' = [din EXCEPT ![c] = Append(@, frame)]
    /\ response' = NoResponse
    /\ UNCHANGED <<loaded, now, reqs, dstate, dsent, cstate, csent, cin>>
    /\ UNCHANGED storeVars
    /\ UNCHANGED updVars

\* a control client sends a frame
ControlSend(k, frame) ==
    /\ cstate[k] = "open"
    /\ frames < MaxFrames
    /\ frames' = frames + 1
    /\ cin' = [cin EXCEPT ![k] = Append(@, frame)]
    /\ response' = NoResponse
    /\ UNCHANGED <<loaded, now, reqs, dstate, dsent, din, cstate, csent>>
    /\ UNCHANGED storeVars
    /\ UNCHANGED updVars

\* handleWebSocketMessage (webserver.js 438-455), for the oldest unhandled
\* frame of display socket c
HandleWebSocketMessage(c) ==
    /\ dstate[c] = "open"
    /\ din[c] # <<>>
    /\ din' = [din EXCEPT ![c] = Tail(@)]
    /\ LET data == Head(din[c])
       IN  csent' =
             CASE data.type = "slide-changed" ->
                    BroadcastToControl(CurrentSlideMsg(data.slideIndex))
               [] data.type = "play-state" ->
                    BroadcastToControl(PlayStateMsg(data.isPlaying))
               [] OTHER -> csent
    /\ response' = NoResponse
    /\ UNCHANGED <<loaded, now, reqs, dstate, dsent, cstate, cin, frames>>
    /\ UNCHANGED storeVars
    /\ UNCHANGED updVars

\* variant: request-images is answered to every control socket
HandleControlMessageListToAll(k) ==
    /\ cstate[k] = "open"
    /\ cin[k] # <<>>
    /\ cin' = [cin EXCEPT ![k] = Tail(@)]
    /\ LET data == Head(cin[k])
       IN  /\ dsent' =
                CASE data.type = "navigate" ->
                       BroadcastToAll(NavigateToMsg(data.slideIndex))
                  [] data.type = "playPause" ->
                       BroadcastToAll(PlayPauseMsg(data.isPlaying))
                  [] OTHER -> dsent
           /\ csent' =
                IF data.type = "request-images"
                THEN BroadcastToControl(ImagesListMsg(images))
                ELSE csent
    /\ response' = NoResponse
    /\ UNCHANGED <<loaded, now, reqs, dstate, din, cstate, frames>>
    /\ UNCHANGED storeVars
    /\ UNCHANGED updVars

\* variant: the newest unhandled frame of the socket is handled first
HandleControlMessageNewest(k) ==
    /\ cstate[k] = "open"
    /\ cin[k] # <<>>
    /\ cin' = [cin EXCEPT ![k] = SubSeq(@, 1, Len(@) - 1)]
    /\ LET data == cin[k][Len(cin[k])]
       IN  /\ dsent' =
                CASE data.type = "navigate" ->
                       BroadcastToAll(NavigateToMsg(data.slideIndex))
                  [] data.type = "playPause" ->
                       BroadcastToAll(PlayPauseMsg(data.isPlaying))
                  [] OTHER -> dsent
           /\ csent' =
                IF data.type = "request-images"
                THEN [csent EXCEPT ![k] = Append(@, ImagesListMsg(images))]
                ELSE csent
    /\ response' = NoResponse
    /\ UNCHANGED <<loaded, now, reqs, dstate, din, cstate, frames>>
    /\ UNCHANGED storeVars
    /\ UNCHANGED updVars

\* handleControlMessage (webserver.js 457-481), for the oldest unhandled
\* frame of control socket k
HandleControlMessage(k) ==
    /\ cstate[k] = "open"
    /\ cin[k] # <<>>
    /\ cin' = [cin EXCEPT ![k] = Tail(@)]
    /\ LET data == Head(cin[k])
       IN  /\ dsent' =
                CASE data.type = "navigate" ->
                       BroadcastToAll(NavigateToMsg(data.slideIndex))
                  [] data.type = "playPause" ->
                       BroadcastToAll(PlayPauseMsg(data.isPlaying))
                  [] OTHER -> dsent
           /\ csent' =
                IF data.type = "request-images"
                THEN [csent EXCEPT ![k] = Append(@, ImagesListMsg(images))]
                ELSE csent
    /\ response' = NoResponse
    /\ UNCHANGED <<loaded, now, reqs, dstate, din, cstate, frames>>
    /\ UNCHANGED storeVars
    /\ UNCHANGED updVars

(***************************************************************************)
(* init (webserver.js 20-40): setupWebSocket runs before loadImages, the   *)
(* HTTP server starts after it.                                            *)
(***************************************************************************)
\* init(), from "await this.loadImages()" on: the catalog is built and the
\* HTTP server starts listening
LoadImagesDone ==
    /\ ~loaded
    /\ loaded' = TRUE
    /\ \E readable \in BOOLEAN : images' = LoadImages(imageDir, readable, now)
    /\ response' = NoResponse
    /\ UNCHANGED <<now, imageDir, thumbs, catalogFile, reqs>>
    /\ UNCHANGED hubVars
    /\ UNCHANGED updVars

(***************************************************************************)
(* Inputs of the HTTP handlers.                                            *)
(***************************************************************************)
\* the multipart body of POST /api/upload: the file of field "image", if any.
\* photo.jpg is an image sharp can crop; wide.jpg one whose centred cover
\* crop fails while a resize that fits inside succeeds; broken.jpg one
\* sharp cannot decode at all.
UploadBodies ==
    { [present |-> TRUE, originalname |-> FileName("photo", ".jpg"),
       size |-> 2097152, mimetype |-> "image/jpeg"],
      [present |-> TRUE, originalname |-> FileName("wide", ".jpg"),
       size |-> 2097152, mimetype |-> "image/jpeg"],
      [present |-> TRUE, originalname |-> FileName("broken", ".jpg"),
       size |-> 2097152, mimetype |-> "image/jpeg"],
      [present |-> TRUE, originalname |-> FileName("setup", ".EXE"),
       size |-> 2097152, mimetype |-> "application/octet-stream"],
      [present |-> TRUE, originalname |-> FileName("huge", ".png"),
       size |-> 6291456, mimetype |-> "image/png"],
      [present |-> FALSE] }

\* the :id part of the URL: its leading decimal digits as a number (no
\* element when it starts with none) and the characters after them
IdParam(digits, rest) == [lead |-> digits, rest |-> rest]

\* parseInt(req.params.id): the number of the leading digits, NaN (modelled
\* as the empty sequence) when there are none; what follows is ignored
ParseInt(param) == param.lead

\* img.id === imageId, imageId a parseInt result (NaN equals nothing)
StrictEquals(id, parsed) == parsed = <<id>>

\* variant: a miss yields the last position, as splice(-1, 1) would use it
FindIndexOrLast(imgs, parsed) ==
    IF \E i \in 1..Len(imgs) : StrictEquals(imgs[i].id, parsed)
    THEN CHOOSE i \in 1..Len(imgs) :
            /\ StrictEquals(imgs[i].id, parsed)
            /\ \A j \in 1..(i - 1) : ~StrictEquals(imgs[j].id, parsed)
    ELSE Len(imgs)

\* this.images.findIndex(img => img.id === imageId), 1-based; 0 for -1
FindIndex(imgs, parsed) ==
    IF \E i \in 1..Len(imgs) : StrictEquals(imgs[i].id, parsed)
    THEN CHOOSE i \in 1..Len(imgs) :
            /\ StrictEquals(imgs[i].id, parsed)
            /\ \A j \in 1..(i - 1) : ~StrictEquals(imgs[j].id, parsed)
    ELSE 0

\* the ids a request may name: those of the catalog, an unused one, one with
\* trailing characters and one that is no number
IdParams ==
    {IdParam(<<images[i].id>>, "") : i \in 1..Len(images)}
        \cup {IdParam(<<7>>, ""), IdParam(<<1>>, "abc"), IdParam(<<>>, "abc")}

\* req.body of PUT /api/images/:id, as express.json() parsed it
EmptyBody == [f \in {} |-> TRUE]
PatchBodies ==
    { EmptyBody,
      [title |-> "New title", active |-> FALSE],
      [id |-> 1] }

(***************************************************************************)
(* Responses.                                                              *)
(***************************************************************************)
Response(status, body) == [status |-> status, body |-> body]

\* res.json({ success: true, image }) where image may be undefined
SuccessBody(imgs, index) ==
    IF index \in 1..Len(imgs)
    THEN [success |-> TRUE, image |-> imgs[index]]
    ELSE [success |-> TRUE]

\* An error passed to next(err) with no error middleware registered ends in
\* the default handler of express: err.status when it is set, 500 otherwise
DefaultErrorResponse(err) ==
    Response(IF "status" \in DOMAIN err THEN err.status ELSE 500,
             [error |-> err.message])


(***************************************************************************)
(* POST /api/upload (webserver.js 100-157)                                 *)
(***************************************************************************)
\* multer's fileFilter
FileFilter(file) == ToLowerCase(Extname(file.originalname)) \in AllowedExtensions

\* the random name multer's disk storage gives the file of request r
UploadName(r) == FileName("upload" \o ToString(r), "")

ImageData(r, file, time, imgs) ==
    [id |-> time,
     filename |-> UploadName(r),
     originalname |-> file.originalname,
     path |-> UploadName(r),
     size |-> file.size,
     mimetype |-> file.mimetype,
     uploaded |-> time,
     title |-> ParseName(file.originalname),
     description |-> "",
     order |-> Len(imgs) + 1,
     active |-> TRUE]

\* requests are numbered in the order in which they arrive
CanStart(r) ==
    /\ loaded
    /\ reqs[r].pc = "idle"
    /\ \A q \in Slots : q < r => reqs[q].pc # "idle"

\* variant: the handler is entered without the file having been written
UploadStartUnstored(r, file) ==
    /\ CanStart(r)
    /\ \E t \in Clock : now' = t
    /\ IF ~file.present
       THEN /\ reqs' = [reqs EXCEPT ![r] = Ended]
            /\ response' = Reply(r, "upload",
                                 Response(500, [error |-> "No file uploaded"]))
       ELSE IF ~FileFilter(file)
       THEN /\ reqs' = [reqs EXCEPT ![r] = Ended]
            /\ response' = Reply(r, "upload",
                    DefaultErrorResponse([message |-> "Invalid file type"]))
       ELSE /\ reqs' = [reqs EXCEPT ![r] =
                    [kind |-> "upload", pc |-> "receiving", file |-> file,
                     started |-> now']]
            /\ response' = NoResponse
    /\ UNCHANGED <<loaded, imageDir, thumbs, images, catalogFile>>
    /\ UNCHANGED hubVars
    /\ UNCHANGED updVars

\* The request arrives.  Without a file the handler runs at once and throws;
\* a file the filter rejects is an error passed to next(); otherwise multer
\* starts to stream the file into the images directory.
UploadStart(r, file) ==
    /\ CanStart(r)
    /\ \E t \in Clock : now' = t
    /\ IF ~file.present
       THEN /\ reqs' = [reqs EXCEPT ![r] = Ended]
            /\ response' = Reply(r, "upload",
                                 Response(500, [error |-> "No file uploaded"]))
            /\ UNCHANGED imageDir
       ELSE IF ~FileFilter(file)
       THEN /\ reqs' = [reqs EXCEPT ![r] = Ended]
            /\ response' = Reply(r, "upload",
                    DefaultErrorResponse([message |-> "Invalid file type"]))
            /\ UNCHANGED imageDir
       ELSE /\ reqs' = [reqs EXCEPT ![r] =
                    [kind |-> "upload", pc |-> "receiving", file |-> file,
                     started |-> now']]
            /\ response' = NoResponse
            /\ imageDir' = Append(imageDir, UploadName(r))
    /\ UNCHANGED <<loaded, thumbs, images, catalogFile>>
    /\ UNCHANGED hubVars
    /\ UNCHANGED updVars

\* The file has been received.  Over the size limit multer removes it and
\* passes a MulterError to next(); otherwise the handler runs up to the first
\* await of saveImages.
UploadStored(r) ==
    /\ reqs[r].kind = "upload"
    /\ reqs[r].pc = "receiving"
    /\ \E t \in Clock : now' = t
    /\ LET file == reqs[r].file
           imageData == ImageData(r, file, now', images)
       IN  IF file.size > MaxFileSize
           THEN /\ reqs' = [reqs EXCEPT ![r] = Ended]
                /\ response' = Reply(r, "upload", DefaultErrorResponse(
                        [message |-> "File too large", code |-> "LIMIT_FILE_SIZE"]))
                /\ imageDir' = RemoveFile(imageDir, UploadName(r))
                /\ UNCHANGED images
           ELSE /\ reqs' = [reqs EXCEPT ![r] =
                        [kind |-> "upload", pc |-> "mkdir", started |-> reqs[r].started,
                         imageData |-> imageData]]
                /\ response' = NoResponse
                /\ images' = Append(images, imageData)
                /\ UNCHANGED imageDir
    /\ UNCHANGED <<loaded, thumbs, catalogFile>>
    /\ UNCHANGED hubVars
    /\ UNCHANGED updVars

(***************************************************************************)
(* saveImages (webserver.js 533-541)                                       *)
(***************************************************************************)
\* the handler of request r at position pc, its locals extended by extra
With(r, pc, extra) ==
    [f \in DOMAIN reqs[r] \cup DOMAIN extra |->
        IF f \in DOMAIN extra THEN extra[f]
        ELSE IF f = "pc" THEN pc ELSE reqs[r][f]]

\* fs.mkdir has completed: this.images is serialised and the write started
SaveMkdir(r) ==
    /\ reqs[r].pc = "mkdir"
    /\ reqs' = [reqs EXCEPT ![r] = With(r, "write", [json |-> images])]
    /\ response' = NoResponse
    /\ UNCHANGED <<loaded, now>>
    /\ UNCHANGED storeVars
    /\ UNCHANGED hubVars
    /\ UNCHANGED updVars

\* fs.writeFile has completed (ok) or failed (the failure is logged only)
WriteFile(file, json, ok) == IF ok THEN <<json>> ELSE file

\* upload: the save is over, the thumbnail is being generated
UploadSaved(r) ==
    /\ reqs[r].kind = "upload"
    /\ reqs[r].pc = "write"
    /\ \E ok \in BOOLEAN : catalogFile' = WriteFile(catalogFile, reqs[r].json, ok)
    /\ reqs' = [reqs EXCEPT ![r] =
            [kind |-> "upload", pc |-> "thumb", started |-> reqs[r].started,
             imageData |-> reqs[r].imageData]]
    /\ response' = NoResponse
    /\ UNCHANGED <<loaded, now, imageDir, thumbs, images>>
    /\ UNCHANGED hubVars
    /\ UNCHANGED updVars

(***************************************************************************)
(* generateThumbnail (webserver.js 543-561) and the end of the upload      *)
(***************************************************************************)
\* sharp(inputPath).resize(w, h, {fit: 'cover', position: 'center'}) succeeds
\* on the content uploaded as imageData.originalname, and
\* sharp(inputPath).resize(w, h, {fit: 'inside'}) does
CoverSucceeds(imageData) == imageData.originalname.base \notin {"wide", "broken"}
InsideSucceeds(imageData) == imageData.originalname.base # "broken"

\* sharp(inputPath)...toFile(outputPath), the one attempt of the server: ok
\* when the input file is there and the cover crop succeeds; a failure is
\* logged only
GenerateThumbnail(files, imageData, ok) ==
    IF ok THEN files \cup {imageData.filename} ELSE files

\* variant: a thumbnail that could not be generated fails the upload
UploadThumbnailDonePropagates(r) ==
    /\ reqs[r].kind = "upload"
    /\ reqs[r].pc = "thumb"
    /\ LET imageData == reqs[r].imageData
           ok == InDir(imageDir, imageData.path) /\ CoverSucceeds(imageData)
       IN  /\ thumbs' = GenerateThumbnail(thumbs, imageData, ok)
           /\ dsent' = IF ok THEN BroadcastToAll(ImageUploadedMsg(imageData))
                       ELSE dsent
           /\ response' = Reply(r, "upload",
                    IF ok
                    THEN Response(200, [success |-> TRUE, image |-> imageData])
                    ELSE Response(500, [error |-> "Input file is missing"]))
    /\ reqs' = [reqs EXCEPT ![r] = Ended]
    /\ UNCHANGED <<loaded, now, imageDir, images, catalogFile>>
    /\ UNCHANGED <<dstate, din, cstate, csent, cin, frames>>
    /\ UNCHANGED updVars

UploadThumbnailDone(r) ==
    /\ reqs[r].kind = "upload"
    /\ reqs[r].pc = "thumb"
    /\ LET imageData == reqs[r].imageData
       IN  /\ thumbs' = GenerateThumbnail(thumbs, imageData,
                    InDir(imageDir, imageData.path) /\ CoverSucceeds(imageData))
           /\ dsent' = BroadcastToAll(ImageUploadedMsg(imageData))
           /\ response' = Reply(r, "upload",
                    Response(200, [success |-> TRUE, image |-> imageData]))
    /\ reqs' = [reqs EXCEPT ![r] = Ended]
    /\ UNCHANGED <<loaded, now, imageDir, images, catalogFile>>
    /\ UNCHANGED <<dstate, din, cstate, csent, cin, frames>>
    /\ UNCHANGED updVars

(***************************************************************************)
(* PUT /api/images/:id (webserver.js 160-192)                              *)
(***************************************************************************)
\* variant: the time stamp is written to uploaded as well as to updated
MergePatchRestamp(old, body, time) ==
    [f \in DOMAIN old \cup DOMAIN body \cup {"updated"} |->
        IF f \in {"updated", "uploaded"} THEN time
        ELSE IF f \in DOMAIN body THEN body[f] ELSE old[f]]

\* { ...this.images[index], ...req.body, updated: new Date().toISOString() }
MergePatch(old, body, time) ==
    [f \in DOMAIN old \cup DOMAIN body \cup {"updated"} |->
        IF f = "updated" THEN time
        ELSE IF f \in DOMAIN body THEN body[f] ELSE old[f]]

UpdateStart(r, param, body) ==
    /\ CanStart(r)
    /\ \E t \in Clock : now' = t
    /\ LET imageId == ParseInt(param)
           index == FindIndex(images, imageId)
       IN  IF index = 0
           THEN /\ reqs' = [reqs EXCEPT ![r] = Ended]
                /\ response' = Reply(r, "put",
                                     Response(404, [error |-> "Image not found"]))
                /\ UNCHANGED images
           ELSE /\ images' = [images EXCEPT ![index] = MergePatch(@, body, now')]
                /\ reqs' = [reqs EXCEPT ![r] =
                        [kind |-> "put", pc |-> "mkdir", body |-> body,
                         imageId |-> imageId, index |-> index]]
                /\ response' = NoResponse
    /\ UNCHANGED <<loaded, imageDir, thumbs, catalogFile>>
    /\ UNCHANGED hubVars
    /\ UNCHANGED updVars

\* the save is over: the record now at position index is broadcast and returned
UpdateSaved(r) ==
    /\ reqs[r].kind = "put"
    /\ reqs[r].pc = "write"
    /\ \E ok \in BOOLEAN : catalogFile' = WriteFile(catalogFile, reqs[r].json, ok)
    /\ dsent' = BroadcastToAll(ImageUpdatedMsg(images, reqs[r].index))
    /\ response' = Reply(r, "put", Response(200, SuccessBody(images, reqs[r].index)))
    /\ reqs' = [reqs EXCEPT ![r] = Ended]
    /\ UNCHANGED <<loaded, now, imageDir, thumbs, images>>
    /\ UNCHANGED <<dstate, din, cstate, csent, cin, frames>>
    /\ UNCHANGED updVars

(***************************************************************************)
(* DELETE /api/images/:id (webserver.js 195-230)                           *)
(***************************************************************************)
\* The handler up to its first await.  fs.unlink(undefined), for a record
\* without a path, rejects without any I/O: the catch logs it and the handler
\* goes on to the splice and to saveImages.
DeleteStart(r, param) ==
    /\ CanStart(r)
    /\ LET imageId == ParseInt(param)
           index == FindIndex(images, imageId)
           handler(pc) == [kind |-> "delete", pc |-> pc, imageId |-> imageId,
                           index |-> index, image |-> images[index]]
       IN  IF index = 0
           THEN /\ reqs' = [reqs EXCEPT ![r] = Ended]
                /\ response' = Reply(r, "delete",
                                     Response(404, [error |-> "Image not found"]))
                /\ UNCHANGED images
           ELSE IF "path" \notin DOMAIN images[index]
           THEN /\ reqs' = [reqs EXCEPT ![r] = handler("mkdir")]
                /\ response' = NoResponse
                /\ images' = Splice(images, index)
           ELSE /\ reqs' = [reqs EXCEPT ![r] = handler("unlink")]
                /\ response' = NoResponse
                /\ UNCHANGED images
    /\ UNCHANGED <<loaded, now, imageDir, thumbs, catalogFile>>
    /\ UNCHANGED hubVars
    /\ UNCHANGED updVars

\* The handler resumes after one of its awaits:
\*   "unlink"       fs.unlink(image.path) has completed; when it failed the
\*                  catch skips the thumbnail, and the splice and saveImages
\*                  follow at once
\*   "unlinkThumb"  fs.unlink(thumbPath) has completed or failed; the splice
\*                  and saveImages follow
\*   "write"        the save is over: the requested id is broadcast
DeleteResume(r) ==
    /\ reqs[r].kind = "delete"
    /\ reqs[r].pc \in {"unlink", "unlinkThumb", "write"}
    /\ CASE reqs[r].pc = "unlink" ->
              /\ IF InDir(imageDir, reqs[r].image.path)
                 THEN /\ imageDir' = RemoveFile(imageDir, reqs[r].image.path)
                      /\ reqs' = [reqs EXCEPT ![r].pc = "unlinkThumb"]
                      /\ UNCHANGED images
                 ELSE /\ images' = Splice(images, reqs[r].index)
                      /\ reqs' = [reqs EXCEPT ![r].pc = "mkdir"]
                      /\ UNCHANGED imageDir
              /\ response' = NoResponse
              /\ UNCHANGED <<thumbs, catalogFile, dsent>>
         [] reqs[r].pc = "unlinkThumb" ->
              /\ thumbs' = thumbs \ {reqs[r].image.filename}
              /\ images' = Splice(images, reqs[r].index)
              /\ reqs' = [reqs EXCEPT ![r].pc = "mkdir"]
              /\ response' = NoResponse
              /\ UNCHANGED <<imageDir, catalogFile, dsent>>
         [] reqs[r].pc = "write" ->
              /\ \E ok \in BOOLEAN :
                    catalogFile' = WriteFile(catalogFile, reqs[r].json, ok)
              /\ dsent' = BroadcastToAll(ImageDeletedMsg(reqs[r].imageId[1]))
              /\ response' = Reply(r, "delete", Response(200, [success |-> TRUE]))
              /\ reqs' = [reqs EXCEPT ![r] = Ended]
              /\ UNCHANGED <<imageDir, thumbs, images>>
    /\ UNCHANGED <<loaded, now>>
    /\ UNCHANGED <<dstate, din, cstate, csent, cin, frames>>
    /\ UNCHANGED updVars

(***************************************************************************)
(* The process is stopped and started again (startup script, systemd): the *)
(* memory of the process is lost, the files stay.                          *)
(***************************************************************************)
RestartServer ==
    /\ loaded' = FALSE
    /\ images' = <<>>
    /\ reqs' = [r \in Slots |-> IF reqs[r].pc = "idle" THEN Idle ELSE Ended]
    /\ response' = NoResponse
    /\ dstate' = [c \in Displays |-> "none"]
    /\ dsent' = [c \in Displays |-> <<>>]
    /\ din' = [c \in Displays |-> <<>>]
    /\ cstate' = [c \in Controls |-> "none"]
    /\ csent' = [c \in Controls |-> <<>>]
    /\ cin' = [c \in Controls |-> <<>>]
    /\ UNCHANGED <<now, imageDir, thumbs, catalogFile, frames>>

Restart ==
    /\ loaded
    /\ RestartServer
    /\ UNCHANGED updVars

\* the display sockets that connect while HTTP requests are served
(***************************************************************************)
(* The auto-update system: AutoUpdateSystem of auto-update.js.  An instance *)
(* is created by the command line (a process of its own) or by the web     *)
(* server for each request to /api/update/perform.  Every action is one    *)
(* run-to-completion segment: what a call does from the completion of one  *)
(* await up to its next await.                                             *)
(***************************************************************************)
clockVars == <<loaded, imageDir, thumbs, images, catalogFile, reqs, response>>
serverVars == <<now, clockVars, hubVars>>

\* config.backupBeforeUpdate and config.autoUpdate of the constructor
backupBeforeUpdate == TRUE
autoUpdate == TRUE

\* broadcastUpdateStatus(type, data) as a client connected throughout sees it
Broadcast(u, status) == Append(u.sent, status)

Progress(percentage) == [type |-> "progress", percentage |-> percentage]

\* variant: the newest backup is listed last
RECURSIVE ListBackupsOldestFirst(_)
ListBackupsOldestFirst(bs) ==
    IF bs = {} THEN <<>>
    ELSE LET oldest == CHOOSE b \in bs : \A c \in bs : b.timestamp <= c.timestamp
         IN  <<oldest>> \o ListBackupsOldestFirst(bs \ {oldest})

\* listBackups: the backups that have a manifest, the newest manifest first
RECURSIVE ListBackups(_)
ListBackups(bs) ==
    IF bs = {} THEN <<>>
    ELSE LET newest == CHOOSE b \in bs : \A c \in bs : c.timestamp <= b.timestamp
         IN  <<newest>> \o ListBackups(bs \ {newest})

\* manageBackupRetention: everything listed after the first maxBackups is removed
ManageBackupRetention(bs) ==
    LET list == ListBackups(bs)
    IN  IF Len(list) > maxBackups
        THEN {list[k] : k \in 1..maxBackups}
        ELSE bs

\* createBackup when every copy succeeds: the directory named after the time
\* and the version receives the six items and the manifest, then retention
CreateBackup(bs, time, version, rt) ==
    LET backup == Backup(time, version, rt)
    IN  ManageBackupRetention({b \in bs : b.name # backup.name} \cup {backup})

\* restoreFromBackup: every item of the backup is copied over the installation
Restore(rt, backup) ==
    [item \in Items |->
        IF item \in DOMAIN backup.files /\ backup.files[item] # {}
        THEN Copy(item, backup.files[item], rt[item])
        ELSE rt[item]]

\* validateUpdate: the three required files exist and package.json has a version
ValidateUpdate(update) ==
    /\ "package.json" \in update.items
    /\ "server" \in update.items
    /\ "public" \in update.items /\ update.indexHtml
    /\ update.version # <<>>

\* variant: the copy loop does not skip the images directory
SkippedItemsButImages == {"server", "public", "thumbnails", "logs", "node_modules"}

\* the names the copy loop of installUpdate skips
SkippedItems ==
    {"server", "public", "images", "thumbnails", "logs", "node_modules"}

\* installUpdate: package.json and npm install, server, public, then every
\* other top-level item; when npm install fails only package.json was copied
InstallUpdate(rt, update, npmOk) ==
    LET copied(item) == Copy(item, UpdateItem(update, item), rt[item])
    IN  [item \in Items |->
            CASE item = "package.json" ->
                    IF item \in update.items THEN copied(item) ELSE rt[item]
              [] item = "node_modules" ->
                    IF "package.json" \in update.items /\ npmOk
                    THEN {update.deps} ELSE rt[item]
              [] item \in {"server", "public"} ->
                    IF item \in update.items /\ npmOk THEN copied(item) ELSE rt[item]
              [] OTHER ->
                    IF item \in update.items \ SkippedItems /\ npmOk
                    THEN copied(item) ELSE rt[item]]

\* performUpdate up to its first await: refused while the flag is set;
\* otherwise the flag is set, 'start' is broadcast, and the call awaits the
\* check for updates or, when forced, the backup
PerformUpdate(u, force) ==
    IF u.updateInProgress
    THEN [u EXCEPT !.result =
                <<[success |-> FALSE, error |-> "Update already in progress"]>>]
    ELSE [u EXCEPT !.updateInProgress = TRUE,
                   !.sent = <<[type |-> "start"]>>,
                   !.pc = IF ~force THEN "check"
                          ELSE IF backupBeforeUpdate THEN "backup" ELSE "download",
                   !.backupPath = Null, !.updatePath = Null, !.error = Null,
                   !.restored = Null, !.result = Null]

\* what that segment of performUpdate logs
PerformUpdateLogs(u, force) ==
    IF u.updateInProgress THEN <<>>
    ELSE IF ~force THEN <<"Checking for updates...">>
    ELSE IF backupBeforeUpdate THEN <<"Creating backup...">> ELSE <<>>

\* checkForUpdates after fetchLatestRelease: release is <<tag_name>>, or <<>>
\* when the request failed
CheckForUpdates(u, release) ==
    IF release = <<>>
    THEN [updateAvailable |-> FALSE, error |-> "Update check failed"]
    ELSE [updateAvailable |-> IsNewerVersion(release[1], u.currentVersion),
          currentVersion |-> u.currentVersion,
          latestVersion |-> release[1]]

CheckForUpdatesLogs(u, release) ==
    IF release = <<>> THEN <<"Update check failed">>
    ELSE IF IsNewerVersion(release[1], u.currentVersion)
    THEN <<"Update available">> ELSE <<"System is up to date">>

\* the catch of performUpdate up to its await of restoreFromBackup
Catch(u, message) ==
    [u EXCEPT !.pc = "restore", !.updatePath = Null, !.error = message]

CatchLogs == <<"Update failed", "Restoring from backup...">>

\* the instances are named in the order of their creation, each name once
CanCreate(i) ==
    /\ upd[i] = NoInstance
    /\ i = "u2" => upd["u1"] # NoInstance

\* POST /api/update/perform: a new instance, and performUpdate on it at once
PostPerform(i, force) ==
    /\ loaded
    /\ CanCreate(i)
    /\ upd' = [upd EXCEPT ![i] = PerformUpdate(NewInstance("http", "none"), force)]
    /\ root' = Log(root, PerformUpdateLogs(NewInstance("http", "none"), force))
    /\ UNCHANGED <<backups, serverVars>>

\* node auto-update.js arg: a process with a new instance
CommandLine(i, arg) ==
    /\ CanCreate(i)
    /\ upd' = [upd EXCEPT ![i] = NewInstance("cli", arg)]
    /\ UNCHANGED <<root, backups, serverVars>>

\* loadConfig of init(): the version of package.json becomes config.currentVersion
LoadConfig(i) ==
    /\ upd[i].created
    /\ ~upd[i].configLoaded
    /\ upd' = [upd EXCEPT ![i].configLoaded = TRUE,
                          ![i].currentVersion =
                              IF root["package.json"] = {} THEN @
                              ELSE (CHOOSE p \in root["package.json"] : TRUE).version]
    /\ UNCHANGED <<root, backups, serverVars>>

\* handleCliArguments, called by init() after loadConfig
HandleCliArguments(i) ==
    /\ upd[i].created
    /\ upd[i].configLoaded
    /\ upd[i].cli # "none"
    /\ IF upd[i].cli = "--force"
       THEN /\ upd' = [upd EXCEPT ![i] = [PerformUpdate(@, TRUE) EXCEPT !.cli = "none"]]
            /\ root' = Log(root, PerformUpdateLogs(upd[i], TRUE))
       ELSE /\ upd' = [upd EXCEPT ![i].cli = "none", ![i].auto = upd[i].cli]
            /\ root' = Log(root, <<"Checking for updates...">>)
    /\ UNCHANGED <<backups, serverVars>>

\* the checkForUpdates of --check or --auto has returned
CliChecked(i, release) ==
    /\ upd[i].created
    /\ upd[i].auto # "none"
    /\ LET u == [upd[i] EXCEPT !.auto = "none",
                               !.updateCheck = <<CheckForUpdates(upd[i], release)>>]
           perform == upd[i].auto = "--auto" /\ u.updateCheck[1].updateAvailable
       IN  /\ upd' = [upd EXCEPT ![i] = IF perform THEN PerformUpdate(u, FALSE) ELSE u]
           /\ root' = Log(root, CheckForUpdatesLogs(upd[i], release)
                    \o IF perform THEN PerformUpdateLogs(u, FALSE) ELSE <<>>)
    /\ UNCHANGED <<backups, serverVars>>

\* startUpdateChecker: the interval fires and the flag is not set
PeriodicTick(i) ==
    /\ upd[i].created
    /\ upd[i].configLoaded
    /\ autoUpdate
    /\ ~upd[i].updateInProgress
    /\ ~upd[i].tick
    /\ upd' = [upd EXCEPT ![i].tick = TRUE]
    /\ root' = Log(root, <<"Checking for updates...">>)
    /\ UNCHANGED <<backups, serverVars>>

\* the checkForUpdates of the interval callback has returned
TickChecked(i, release) ==
    /\ upd[i].created
    /\ upd[i].tick
    /\ LET u == [upd[i] EXCEPT !.tick = FALSE,
                               !.updateCheck = <<CheckForUpdates(upd[i], release)>>]
           perform == u.updateCheck[1].updateAvailable
       IN  /\ upd' = [upd EXCEPT ![i] = IF perform THEN PerformUpdate(u, FALSE) ELSE u]
           /\ root' = Log(root, CheckForUpdatesLogs(upd[i], release)
                    \o IF perform THEN PerformUpdateLogs(u, FALSE) ELSE <<>>)
    /\ UNCHANGED <<backups, serverVars>>

\* performUpdate: its checkForUpdates has returned
Checked(i, release) ==
    /\ upd[i].pc = "check"
    /\ LET check == CheckForUpdates(upd[i], release)
       IN  IF ~check.updateAvailable
           THEN /\ upd' = [upd EXCEPT ![i].updateCheck = <<check>>,
                                      ![i].updateInProgress = FALSE,
                                      ![i].pc = "none",
                                      ![i].result = <<[success |-> FALSE,
                                                       error |-> "No update available"]>>]
                /\ root' = Log(root, CheckForUpdatesLogs(upd[i], release))
           ELSE /\ upd' = [upd EXCEPT ![i].updateCheck = <<check>>,
                                      ![i].pc = IF backupBeforeUpdate
                                                THEN "backup" ELSE "download",
                                      ![i].sent = IF backupBeforeUpdate THEN @
                                                  ELSE Append(@, Progress(10))]
                /\ root' = Log(root, CheckForUpdatesLogs(upd[i], release)
                        \o IF backupBeforeUpdate THEN <<"Creating backup...">> ELSE <<>>)
    /\ UNCHANGED <<backups, serverVars>>

\* performUpdate: createBackup has returned or thrown.  Copying the
\* installation takes time: the manifest is stamped later than any clock
\* value read before.
BackedUp(i) ==
    /\ upd[i].pc = "backup"
    /\ \E ok \in BOOLEAN :
          IF ok
          THEN /\ now < StartTime + MaxTicks
               /\ now' = now + 1
               /\ backups' = CreateBackup(backups, now', upd[i].currentVersion, root)
               /\ upd' = [upd EXCEPT ![i].backupPath = <<now', upd[i].currentVersion>>,
                                     ![i].pc = "download",
                                     ![i].sent = Append(@, Progress(10))]
               /\ root' = Log(root, <<"Backup created">>)
          ELSE /\ upd' = [upd EXCEPT ![i] = Catch(@, "Backup failed")]
               /\ root' = Log(root, <<"Backup failed">> \o CatchLogs)
               /\ UNCHANGED <<now, backups>>
    /\ UNCHANGED <<clockVars, hubVars>>

\* performUpdate: downloadUpdate has returned the extracted directory of the
\* release, or thrown (release is <<>>: no release, no archive, no directory)
Downloaded(i, release) ==
    /\ upd[i].pc = "download"
    /\ IF release = <<>>
       THEN /\ upd' = [upd EXCEPT ![i] = Catch(@, "No download URL")]
            /\ root' = Log(root, CatchLogs)
       ELSE \E update \in Downloads(release[1]) :
               /\ upd' = [upd EXCEPT ![i].updatePath = <<update>>,
                                     ![i].pc = "validate",
                                     ![i].sent = Append(@, Progress(30))]
               /\ root' = Log(root, <<"Update downloaded">>)
    /\ UNCHANGED <<backups, serverVars>>

\* performUpdate: validateUpdate has returned or thrown
Validated(i) ==
    /\ upd[i].pc = "validate"
    /\ IF ValidateUpdate(upd[i].updatePath[1])
       THEN /\ upd' = [upd EXCEPT ![i].pc = "install",
                                  ![i].sent = Append(@, Progress(50))]
            /\ root' = Log(root, <<"Update validated">>)
       ELSE /\ upd' = [upd EXCEPT ![i] = Catch(@, "Missing file")]
            /\ root' = Log(root, CatchLogs)
    /\ UNCHANGED <<backups, serverVars>>

\* performUpdate: installUpdate has returned, or thrown because npm install failed
Installed(i) ==
    /\ upd[i].pc = "install"
    /\ \E npmOk \in BOOLEAN :
          /\ upd' = [upd EXCEPT ![i] =
                        IF npmOk
                        THEN [@ EXCEPT !.pc = "configure",
                                       !.sent = Append(@, Progress(80))]
                        ELSE Catch(@, "Command failed: npm install --production")]
          /\ root' = Log(InstallUpdate(root, upd[i].updatePath[1], npmOk),
                         IF npmOk THEN <<"Update installed">> ELSE CatchLogs)
    /\ UNCHANGED <<backups, serverVars>>

\* getLatestVersion: tag_name of the release, config.currentVersion when the
\* request failed
GetLatestVersion(u, release) ==
    IF release = <<>> THEN u.currentVersion ELSE release[1]

\* performUpdate: updateConfiguration has returned
Configured(i, release) ==
    /\ upd[i].pc = "configure"
    /\ upd' = [upd EXCEPT ![i].currentVersion = GetLatestVersion(upd[i], release),
                          ![i].pc = "cleanup",
                          ![i].sent = Append(@, Progress(90))]
    /\ root' = Log([root EXCEPT !["config.json"] =
                        {[version |-> GetLatestVersion(upd[i], release)]}],
                   <<"Configuration updated">>)
    /\ UNCHANGED <<backups, serverVars>>

\* performUpdate: cleanupUpdate and getLatestVersion have returned: 'complete'
\* is broadcast, the restart scheduled and the result returned
CleanedUp(i, release) ==
    /\ upd[i].pc = "cleanup"
    /\ LET result == [success |-> TRUE, message |-> "Update completed",
                      previousVersion |-> upd[i].currentVersion,
                      newVersion |-> GetLatestVersion(upd[i], release),
                      backupPath |-> upd[i].backupPath]
       IN  upd' = [upd EXCEPT ![i].pc = "complete",
                              ![i].sent = Append(@, [type |-> "complete",
                                                     success |-> TRUE]),
                              ![i].result = <<result>>]
    /\ root' = Log(root, <<"Temporary files cleaned up", "Update successful">>)
    /\ UNCHANGED <<backups, serverVars>>

\* restartSystem run by instance i: when systemctl restarts the service
\* (started) the web server process ends and with it the instances it
\* created, a command line process goes on; when systemctl fails the process
\* of instance i exits
Ends(i, started) ==
    IF upd[i].origin = "http" \/ started
    THEN {j \in Updaters : upd[j].origin = "http"}
    ELSE {i}

\* the web server process ends, or nothing of the server changes
ServerEnds(i, started) ==
    IF upd[i].origin = "http" \/ started THEN RestartServer ELSE UNCHANGED serverVars

\* the timer set by performUpdate fires: restartSystem
RestartSystem(i) ==
    /\ upd[i].pc = "complete"
    /\ \E started \in BOOLEAN :
          /\ upd' = [j \in Updaters |->
                        IF j \in Ends(i, started) THEN Gone
                        ELSE IF j = i THEN [upd[i] EXCEPT !.pc = "none"]
                        ELSE upd[j]]
          /\ ServerEnds(i, started)
    /\ root' = Log(root, <<"Restarting system...">>)
    /\ UNCHANGED backups

\* performUpdate: the restoreFromBackup of its catch has returned or thrown.
\* It throws when no backup is listed or a copy fails, and performUpdate
\* throws with it; otherwise the newest backup is copied over the
\* installation, its name logged (restored) and restartSystem run, after
\* which, if the process goes on, 'error' is broadcast, the flag reset and
\* the result returned.  The rejection of performUpdate is caught by the
\* handler of the web server; in a command line process nothing catches
\* it, and whether the process exits then depends on the version of node.
Restored(i) ==
    /\ upd[i].pc = "restore"
    /\ \E ok \in BOOLEAN, started \in BOOLEAN, exits \in BOOLEAN :
          IF ok /\ ListBackups(backups) # <<>>
          THEN /\ root' = Log(Restore(root, ListBackups(backups)[1]),
                              <<"System restored from backup", "Restarting system...">>)
               /\ upd' = [j \in Updaters |->
                            IF j \in Ends(i, started) THEN Gone
                            ELSE IF j = i
                            THEN [upd[i] EXCEPT
                                    !.pc = "none",
                                    !.updateInProgress = FALSE,
                                    !.restored = ListBackups(backups)[1].name,
                                    !.sent = Append(@, [type |-> "error",
                                                        success |-> FALSE]),
                                    !.result = <<[success |-> FALSE,
                                                  error |-> upd[i].error,
                                                  message |-> "Update failed, restored from backup"]>>]
                            ELSE upd[j]]
               /\ ServerEnds(i, started)
          ELSE /\ root' = Log(root, <<"Restore failed">>)
               /\ upd' = [upd EXCEPT ![i] =
                            IF exits /\ upd[i].origin = "cli" THEN Gone
                            ELSE [@ EXCEPT !.pc = "none",
                                           !.result = <<[rejected |-> TRUE]>>]]
               /\ UNCHANGED serverVars
    /\ UNCHANGED backups

\* the steps of a performUpdate in progress on an instance of U
Steps(U, R) ==
    \/ \E i \in U, release \in R : Checked(i, release)
    \/ \E i \in U : BackedUp(i)
    \/ \E i \in U, release \in R : Downloaded(i, release)
    \/ \E i \in U : Validated(i)
    \/ \E i \in U : Installed(i)
    \/ \E i \in U, release \in R : Configured(i, release)
    \/ \E i \in U, release \in R : CleanedUp(i, release)
    \/ \E i \in U : RestartSystem(i)
    \/ \E i \in U : Restored(i)

\* what fetchLatestRelease may yield: a release, or <<>> for a failed request
Fetched(tags) == {<<tag>> : tag \in tags} \cup {<<>>}

(***************************************************************************)
(* One instance of the update system, created by the command line or by    *)
(* the web server, with its periodic checker.                              *)
(***************************************************************************)
NextUpdate ==
    \/ LoadImagesDone
    \/ \E force \in BOOLEAN : PostPerform("u1", force)
    \/ \E arg \in {"--force", "--auto"} : CommandLine("u1", arg)
    \/ LoadConfig("u1")
    \/ HandleCliArguments("u1")
    \/ \E release \in Fetched(Releases) : CliChecked("u1", release)
    \/ PeriodicTick("u1")
    \/ \E release \in Fetched(Releases) : TickChecked("u1", release)
    \/ Steps({"u1"}, Fetched(Releases))

InitUpdate ==
    /\ InitServer
    /\ upd = [i \in Updaters |-> NoInstance]
    /\ root = InitialRoot(DefaultVersion)
    /\ backups \in InitialBackups

SpecUpdate == InitUpdate /\ [][NextUpdate]_vars

(***************************************************************************)
(* The web server handling requests to /api/update/perform, each with an   *)
(* instance of its own.                                                    *)
(***************************************************************************)
NextInstances ==
    \/ LoadImagesDone
    \/ \E i \in Updaters, force \in BOOLEAN : PostPerform(i, force)
    \/ \E i \in Updaters : LoadConfig(i)
    \/ Steps(Updaters, Fetched(Releases))

SpecInstances == InitUpdate /\ [][NextInstances]_vars

(***************************************************************************)
(* The command line checking for updates, over all version strings.        *)
(***************************************************************************)
NextVersion ==
    \/ CommandLine("u1", "--check")
    \/ LoadConfig("u1")
    \/ HandleCliArguments("u1")
    \/ \E release \in Fetched(VersionStrings) : CliChecked("u1", release)

InitVersion ==
    /\ InitServer
    /\ upd = [i \in Updaters |-> NoInstance]
    /\ \E version \in VersionStrings : root = InitialRoot(version)
    /\ backups = {}

SpecVersion == InitVersion /\ [][NextVersion]_vars

Viewers == {"d1"}

\* a display socket connects, starts to close or is closed
Sockets ==
    \/ \E c \in Viewers : DisplayConnect(c)
    \/ \E c \in Viewers : DisplayClosing(c)
    \/ \E c \in Viewers : DisplayClosed(c)

\* a request arrives in one of the slots S
Requests(S) ==
    \/ \E r \in S, file \in UploadBodies : UploadStart(r, file)
    \/ \E r \in S, param \in IdParams, body \in PatchBodies : UpdateStart(r, param, body)
    \/ \E r \in S, param \in IdParams : DeleteStart(r, param)

\* a handler in flight resumes after one of its awaits
Handlers ==
    \/ \E r \in Slots : UploadStored(r)
    \/ \E r \in Slots : SaveMkdir(r)
    \/ \E r \in Slots : UploadSaved(r)
    \/ \E r \in Slots : UploadThumbnailDone(r)
    \/ \E r \in Slots : UpdateSaved(r)
    \/ \E r \in Slots : DeleteResume(r)

(***************************************************************************)
(* The server with up to MaxReqs requests, which may all overlap.          *)
(***************************************************************************)
Next ==
    \/ LoadImagesDone
    \/ Restart
    \/ Sockets
    \/ Requests(1..MaxReqs)
    \/ Handlers

Spec == Init /\ [][Next]_vars

(***************************************************************************)
(* The same server with up to FewReqs requests.                            *)
(***************************************************************************)
NextFew ==
    \/ LoadImagesDone
    \/ Restart
    \/ Sockets
    \/ Requests(1..FewReqs)
    \/ Handlers

SpecFew == Init /\ [][NextFew]_vars

(***************************************************************************)
(* The server handling one upload and, once that is answered, up to        *)
(* MaxSlots - 1 DELETE requests, which may overlap.                        *)
(***************************************************************************)
NextOverlap ==
    \/ LoadImagesDone
    \/ \E file \in UploadBodies : UploadStart(1, file)
    \/ \E r \in Slots : UploadStored(r)
    \/ \E r \in Slots : SaveMkdir(r)
    \/ \E r \in Slots : UploadSaved(r)
    \/ \E r \in Slots : UploadThumbnailDone(r)
    \/ \E r \in Slots \ {1}, param \in IdParams :
            reqs[1].pc = "done" /\ DeleteStart(r, param)
    \/ \E r \in Slots : DeleteResume(r)

SpecOverlap == Init /\ [][NextOverlap]_vars

(***************************************************************************)
(* The server receiving one upload while a PUT or DELETE request arrives   *)
(* and is handled.                                                         *)
(***************************************************************************)
NextReceiving ==
    \/ LoadImagesDone
    \/ \E file \in UploadBodies : UploadStart(1, file)
    \/ \E param \in IdParams, body \in PatchBodies : UpdateStart(2, param, body)
    \/ \E param \in IdParams : DeleteStart(2, param)
    \/ Handlers

SpecReceiving == Init /\ [][NextReceiving]_vars

(***************************************************************************)
(* The two hubs alone: connections and relayed frames, the catalog being   *)
(* what loadImages built.                                                  *)
(***************************************************************************)
NextHub ==
    \/ LoadImagesDone
    \/ \E c \in Displays : DisplayConnect(c)
    \/ \E c \in Displays : DisplayClosing(c)
    \/ \E c \in Displays : DisplayClosed(c)
    \/ \E k \in Controls : ControlConnect(k)
    \/ \E k \in Controls : ControlClosing(k)
    \/ \E k \in Controls : ControlClosed(k)
    \/ \E c \in Displays, f \in DisplayFrames : DisplaySend(c, f)
    \/ \E k \in Controls, f \in ControlFrames : ControlSend(k, f)
    \/ \E c \in Displays : HandleWebSocketMessage(c)
    \/ \E k \in Controls : HandleControlMessage(k)

InitHub ==
    /\ Init
    /\ Len(imageDir) > 1

SpecHub == InitHub /\ [][NextHub]_vars

(***************************************************************************)
(* What a display client holds.  The client code is not part of the        *)
(* server; it is modelled as the client the specification describes: it    *)
(* takes the images-list as its catalog and applies every later event in   *)
(* the order received.                                                     *)
(***************************************************************************)
ApplyEvent(cat, msg) ==
    CASE msg.type = "images-list" -> msg.images
      [] msg.type = "image-uploaded" -> Append(cat, msg.image)
      [] msg.type = "image-updated" ->
            IF "image" \in DOMAIN msg
            THEN [i \in 1..Len(cat) |->
                    IF cat[i].id = msg.image.id THEN msg.image ELSE cat[i]]
            ELSE cat
      [] msg.type = "image-deleted" ->
            SelectSeq(cat, LAMBDA img : img.id # msg.imageId)
      [] OTHER -> cat

RECURSIVE ClientCatalog(_)
ClientCatalog(received) ==
    IF received = <<>> THEN <<>>
    ELSE ApplyEvent(ClientCatalog(SubSeq(received, 1, Len(received) - 1)),
                    received[Len(received)])

(***************************************************************************)
(* Properties.                                                             *)
(***************************************************************************)
\* how often frame occurs among the frames sent to a socket
Count(sent, frame) == Cardinality({i \in 1..Len(sent) : sent[i] = frame})

\* the step writes the response to request r, a `kind` request, with status
Responds(r, kind, status) ==
    /\ response' # NoResponse
    /\ response'[1].slot = r
    /\ response'[1].kind = kind
    /\ response'[1].status = status

\* C1: when POST /api/upload succeeds, every display socket that is open has
\* been sent exactly one image-uploaded frame for it, and that frame, the
\* response and the record appended to the catalog are the same record.
UploadEventDelivered ==
    [][\A r \in Slots :
         /\ (reqs[r].pc = "receiving" /\ reqs'[r].pc = "mkdir")
                => images' = Append(images, reqs'[r].imageData)
         /\ Responds(r, "upload", 200)
                => /\ response'[1].body = [success |-> TRUE, image |-> reqs[r].imageData]
                   /\ \A c \in Displays :
                        dstate[c] = "open"
                            => /\ dsent'[c] = Append(dsent[c],
                                    [type |-> "image-uploaded",
                                     image |-> reqs[r].imageData])
                               /\ Count(dsent'[c],
                                    [type |-> "image-uploaded",
                                     image |-> reqs[r].imageData]) = 1
      ]_vars

\* C1 witness: an upload has just been answered with success and an open
\* display socket holds its image-uploaded frame after the initial list.
UploadEventDeliveredWitness ==
    /\ response # NoResponse
    /\ response[1].kind = "upload"
    /\ response[1].status = 200
    /\ \E c \in Displays :
          /\ dstate[c] = "open"
          /\ Len(dsent[c]) >= 2
          /\ dsent[c][Len(dsent[c])] =
                [type |-> "image-uploaded", image |-> response[1].body.image]

\* C2: once no mutation is being handled, the catalog every open display
\* client holds (its initial list with the events applied in order) is the
\* catalog of the server.
CatalogConverges ==
    (loaded /\ \A r \in Slots : reqs[r].pc \in {"idle", "done"})
        => \A c \in Displays :
              dstate[c] = "open" => ClientCatalog(dsent[c]) = images

\* the step handles the oldest unhandled frame of control socket k
HandlesControlFrame(k) ==
    /\ cstate[k] = "open"
    /\ cstate'[k] = "open"
    /\ cin[k] # <<>>
    /\ cin'[k] = Tail(cin[k])

\* C3: when the navigate frame of a control client is handled, every open
\* display socket is sent exactly one navigate-to frame with the same
\* slideIndex, and no control socket is sent anything.
NavigateRelayed ==
    [][\A k \in Controls :
         (HandlesControlFrame(k) /\ Head(cin[k]).type = "navigate")
            => /\ \A c \in Displays :
                    dsent'[c] =
                        IF dstate[c] = "open"
                        THEN Append(dsent[c],
                                [type |-> "navigate-to",
                                 slideIndex |-> Head(cin[k]).slideIndex])
                        ELSE dsent[c]
               /\ csent' = csent
      ]_vars

\* C3 witness: two display sockets are open and the last frame each was sent
\* is navigate-to 3, while the control socket that asked for it got nothing
\* beyond its initial frame.
NavigateRelayedWitness ==
    /\ \A c \in Displays :
          /\ dstate[c] = "open"
          /\ Len(dsent[c]) >= 2
          /\ dsent[c][Len(dsent[c])] = [type |-> "navigate-to", slideIndex |-> 3]
    /\ \E k \in Controls : cstate[k] = "open" /\ Len(csent[k]) = 1

\* the id of the URL names a record of the catalog: the number it starts
\* with (what the handlers parse it to) is the id of a record
NamesRecord(param, imgs) == \E i \in 1..Len(imgs) : param.lead = <<imgs[i].id>>

\* C4: a PUT or DELETE whose id names no record is answered 404 and changes
\* neither the catalog, the catalog file or any other file, nor sends a frame
\* to any socket.
UnknownIdChangesNothing ==
    [][\A r \in Slots :
         (reqs[r].pc = "idle" /\ reqs'[r].pc # "idle")
            => \A param \in IdParams :
                 (/\ ~NamesRecord(param, images)
                  /\ \/ DeleteStart(r, param)
                     \/ \E body \in PatchBodies : UpdateStart(r, param, body))
                    => /\ response' # NoResponse
                       /\ response'[1].slot = r
                       /\ response'[1].status = 404
                       /\ reqs'[r].pc = "done"
                       /\ UNCHANGED <<images, catalogFile, imageDir, thumbs,
                                      dsent, csent>>
      ]_vars

\* C4 witness: a request has just been answered 404 while the catalog holds
\* records and a display socket is open.
UnknownIdChangesNothingWitness ==
    /\ response # NoResponse
    /\ response[1].status = 404
    /\ response[1].kind = "delete"
    /\ Len(images) > 0
    /\ \E c \in Displays : dstate[c] = "open"

\* C5: the merge of a PUT changes, in the record it names, only the fields of
\* the body and the field updated; every other field of that record, every
\* other record, and the length and order of the catalog stay.
UpdateMergesOnlyPatch ==
    [][\A r \in Slots :
         (reqs[r].pc = "idle" /\ reqs'[r].kind = "put")
            => LET i == reqs'[r].index
                   body == reqs'[r].body
               IN  /\ i \in 1..Len(images)
                   /\ reqs'[r].imageId = <<images[i].id>>
                   /\ Len(images') = Len(images)
                   /\ \A j \in 1..Len(images) : j # i => images'[j] = images[j]
                   /\ DOMAIN images'[i] =
                        DOMAIN images[i] \cup DOMAIN body \cup {"updated"}
                   /\ \A f \in DOMAIN images[i] \ (DOMAIN body \cup {"updated"}) :
                        images'[i][f] = images[i][f]
                   /\ \A f \in DOMAIN body \ {"updated"} : images'[i][f] = body[f]
      ]_vars

\* C5 witness: a PUT with a body of title and active has merged: the record
\* has the new title, its old file name and description, and an updated stamp.
UpdateMergesOnlyPatchWitness ==
    \E r \in Slots :
        /\ reqs[r].kind = "put"
        /\ reqs[r].pc = "mkdir"
        /\ DOMAIN reqs[r].body = {"title", "active"}
        /\ reqs[r].index \in 1..Len(images)
        /\ LET image == images[reqs[r].index]
           IN  /\ image.title = "New title"
               /\ image.active = FALSE
               /\ image.description = ""
               /\ image.filename = FileName("b", ".PNG")
               /\ "updated" \in DOMAIN image

\* C6: the record a successful upload returns has an id no other record of
\* the catalog has, and the id is not before the time the request started.
UploadIdUnique ==
    [][\A r \in Slots :
         Responds(r, "upload", 200)
            => /\ response'[1].body.image.id >= reqs[r].started
               /\ Cardinality({i \in 1..Len(images') :
                        images'[i].id = response'[1].body.image.id}) <= 1
      ]_vars

\* C7: no two records of the catalog have the same id.
UniqueIds ==
    \A i, j \in 1..Len(images) : i # j => images[i].id # images[j].id

\* what the round trip is to keep of a record
Content(image) ==
    [id |-> image.id, filename |-> image.filename, title |-> image.title,
     description |-> image.description, active |-> image.active]

Contents(imgs) == {Content(imgs[i]) : i \in 1..Len(imgs)}

\* C8: once a catalog has been saved, loading the catalog as the server does
\* at start yields the records that were saved (order fields aside).
SaveLoadRoundTrip ==
    catalogFile # <<>>
        => LET saved == catalogFile[1]
               reloaded == LoadImages(imageDir, TRUE, now)
           IN  /\ Len(reloaded) = Len(saved)
               /\ Contents(reloaded) = Contents(saved)

\* the file has an extension outside the allow-list, or is over the limit
BadExtension(file) == ToLowerCase(file.originalname.ext) \notin AllowedExtensions
TooLarge(file) == file.size > MaxFileSize

\* C9: an upload of a file with a disallowed extension, or over the size
\* limit, is answered with a 4xx status, appends no record and sends no frame.
BadUploadRejected ==
    [][\A r \in Slots :
         (\/ \E file \in UploadBodies :
                file.present /\ BadExtension(file) /\ UploadStart(r, file)
          \/ /\ reqs[r].pc = "receiving"
             /\ TooLarge(reqs[r].file)
             /\ UploadStored(r))
            => /\ response' # NoResponse
               /\ response'[1].status \in 400..499
               /\ UNCHANGED <<images, dsent>>
      ]_vars

\* C10: the frame a display socket is sent when it connects is the
\* images-list of the catalog of that moment, and it stays the first frame
\* of the socket: later frames are only appended.
SnapshotFirst ==
    [][\A c \in Displays :
         /\ (dstate[c] = "none" /\ dstate'[c] = "open")
                => dsent'[c] = <<[type |-> "images-list", images |-> images]>>
         /\ (dstate[c] # "none" /\ dstate'[c] # "none")
                => /\ Len(dsent[c]) >= 1
                   /\ Len(dsent'[c]) >= Len(dsent[c])
                   /\ SubSeq(dsent'[c], 1, Len(dsent[c])) = dsent[c]
      ]_vars

\* C10 witness: an open display socket whose first frame is a list of two
\* records, followed by a frame broadcast later.
SnapshotFirstWitness ==
    \E c \in Displays :
        /\ dstate[c] = "open"
        /\ Len(dsent[c]) >= 2
        /\ dsent[c][1].type = "images-list"
        /\ Len(dsent[c][1].images) = 2
        /\ dsent[c][2].type # "images-list"

\* C11: a control socket that connects is sent current-slide with slideIndex
\* 0 as its first frame, whatever display clients reported before, and that
\* frame stays its first frame.
ControlGreeting ==
    [][\A k \in Controls :
         /\ (cstate[k] = "none" /\ cstate'[k] = "open")
                => csent'[k] = <<[type |-> "current-slide", slideIndex |-> 0]>>
         /\ (cstate[k] # "none" /\ cstate'[k] # "none")
                => /\ Len(csent[k]) >= 1
                   /\ Len(csent'[k]) >= Len(csent[k])
                   /\ SubSeq(csent'[k], 1, Len(csent[k])) = csent[k]
      ]_vars

\* C11 witness: a control socket was sent current-slide 3, reported by a
\* display client, and a control socket that connected after that holds
\* current-slide 0 as its only frame.
ControlGreetingWitness ==
    \E k, j \in Controls :
        /\ k # j
        /\ cstate[k] = "open"
        /\ cstate[j] = "open"
        /\ Len(csent[j]) = 2
        /\ csent[j][2] = [type |-> "current-slide", slideIndex |-> 3]
        /\ csent[k] = <<[type |-> "current-slide", slideIndex |-> 0]>>

\* the step handles the oldest unhandled frame of display socket c
HandlesDisplayFrame(c) ==
    /\ dstate[c] = "open"
    /\ dstate'[c] = "open"
    /\ din[c] # <<>>
    /\ din'[c] = Tail(din[c])

\* what the hub relays for a frame of a display client: <<>> when nothing
RelayOfDisplayFrame(data) ==
    CASE data.type = "slide-changed" ->
            <<[type |-> "current-slide", slideIndex |-> data.slideIndex]>>
      [] data.type = "play-state" ->
            <<[type |-> "play-state", isPlaying |-> data.isPlaying]>>
      [] OTHER -> <<>>

\* C12 (as amended): when a slide-changed or play-state frame of a display
\* client is handled, every open control socket is sent one current-slide
\* frame with the same slideIndex, or one play-state frame with the same
\* isPlaying, and no display socket is sent anything; a frame of any other
\* type, current-slide included, is relayed to nobody.
DisplayReportsRelayed ==
    [][\A c \in Displays :
         HandlesDisplayFrame(c)
            => /\ \A k \in Controls :
                    csent'[k] =
                        IF cstate[k] = "open"
                        THEN csent[k] \o RelayOfDisplayFrame(Head(din[c]))
                        ELSE csent[k]
               /\ dsent' = dsent
      ]_vars

\* C12 witness: two control sockets are open and the last frame each was
\* sent is current-slide 3, relayed from the slide-changed of a display.
DisplayReportsRelayedWitness ==
    /\ \A k \in Controls :
          /\ cstate[k] = "open"
          /\ Len(csent[k]) >= 2
          /\ csent[k][Len(csent[k])] = [type |-> "current-slide", slideIndex |-> 3]
    /\ \E c \in Displays : dstate[c] = "open" /\ Len(dsent[c]) = 1

\* C12 (as stated): when a current-slide or play-state frame of a display
\* client is handled, every open control socket is sent that frame with the
\* same payload, and no display socket is sent anything.
CurrentSlideRelayed ==
    [][\A c \in Displays :
         (HandlesDisplayFrame(c)
            /\ Head(din[c]).type \in {"current-slide", "play-state"})
            => /\ \A k \in Controls :
                    csent'[k] =
                        IF cstate[k] = "open"
                        THEN Append(csent[k], Head(din[c]))
                        ELSE csent[k]
               /\ dsent' = dsent
      ]_vars

\* C13: when the request-images frame of a control client is handled, that
\* socket is sent one images-list frame with the catalog of that moment, and
\* no other socket, control or display, is sent anything.
RequestImagesAnswered ==
    [][\A k \in Controls :
         (HandlesControlFrame(k) /\ Head(cin[k]).type = "request-images")
            => /\ csent'[k] =
                    Append(csent[k], [type |-> "images-list", images |-> images])
               /\ \A j \in Controls \ {k} : csent'[j] = csent[j]
               /\ dsent' = dsent
      ]_vars

\* C13 witness: a control socket holds, after its initial frame, the list of
\* the two loaded records, while the other control socket and a display
\* socket, both open, hold their initial frame only.
RequestImagesAnsweredWitness ==
    /\ \E k, j \in Controls :
          /\ k # j
          /\ cstate[k] = "open"
          /\ Len(csent[k]) = 2
          /\ csent[k][2] = [type |-> "images-list", images |-> images]
          /\ Len(images) = 2
          /\ cstate[j] = "open"
          /\ Len(csent[j]) = 1
    /\ \E c \in Displays : dstate[c] = "open" /\ Len(dsent[c]) = 1

\* what the hub relays for a frame of a control client: <<>> when nothing
RelayOfControlFrame(data) ==
    CASE data.type = "navigate" ->
            <<[type |-> "navigate-to", slideIndex |-> data.slideIndex]>>
      [] data.type = "playPause" ->
            <<[type |-> "play-pause", isPlaying |-> data.isPlaying]>>
      [] OTHER -> <<>>

\* C14: a socket that is in its server group but not open is sent nothing by
\* a broadcast, every open socket of the group is still sent the frame, and
\* the handler that broadcasts can always run and ends normally, whatever
\* the state of the receiving sockets.
BroadcastSkipsNotOpen ==
    [][
        /\ \A k \in Controls :
            /\ (cstate[k] = "open" /\ cin[k] # <<>>)
                    => ENABLED HandleControlMessage(k)
            /\ HandlesControlFrame(k)
                    => \A c \in Displays :
                          /\ dstate[c] = "closing" => dsent'[c] = dsent[c]
                          /\ dstate[c] = "open"
                                => dsent'[c] = dsent[c]
                                        \o RelayOfControlFrame(Head(cin[k]))
        /\ \A c \in Displays :
            /\ (dstate[c] = "open" /\ din[c] # <<>>)
                    => ENABLED HandleWebSocketMessage(c)
            /\ HandlesDisplayFrame(c)
                    => \A k \in Controls :
                          /\ cstate[k] = "closing" => csent'[k] = csent[k]
                          /\ cstate[k] = "open"
                                => csent'[k] = csent[k]
                                        \o RelayOfDisplayFrame(Head(din[c]))
      ]_vars

\* C14 witness: the first display socket is closing and holds its initial
\* frame only, while the second, which connected after it, is open and was
\* sent navigate-to 3: the broadcast skipped the one and reached the other.
BroadcastSkipsNotOpenWitness ==
    /\ dstate["d1"] = "closing"
    /\ Len(dsent["d1"]) = 1
    /\ dstate["d2"] = "open"
    /\ Len(dsent["d2"]) = 2
    /\ dsent["d2"][2] = [type |-> "navigate-to", slideIndex |-> 3]

\* C15: the frames of one sending socket are handled oldest first, a frame
\* it sends joins its unhandled frames at the end, and what the hub relays
\* for a frame is appended to what each open receiving socket was sent
\* before: every receiver gets the relayed frames in the order of sending.
RelayInSendOrder ==
    [][
        /\ \A k \in Controls :
            cin'[k] # cin[k]
                => \/ cin'[k] = <<>>
                   \/ \E f \in ControlFrames : cin'[k] = Append(cin[k], f)
                   \/ /\ cin'[k] = Tail(cin[k])
                      /\ \A c \in Displays :
                            dsent'[c] =
                                IF dstate[c] = "open"
                                THEN dsent[c] \o RelayOfControlFrame(Head(cin[k]))
                                ELSE dsent[c]
        /\ \A c \in Displays :
            din'[c] # din[c]
                => \/ din'[c] = <<>>
                   \/ \E f \in DisplayFrames : din'[c] = Append(din[c], f)
                   \/ /\ din'[c] = Tail(din[c])
                      /\ \A k \in Controls :
                            csent'[k] =
                                IF cstate[k] = "open"
                                THEN csent[k] \o RelayOfDisplayFrame(Head(din[c]))
                                ELSE csent[k]
      ]_vars

\* C15 witness: the one control socket that is connected sent navigate and
\* then playPause, both are handled, and a display socket holds navigate-to
\* and play-pause in that order after its initial frame.
RelayInSendOrderWitness ==
    /\ cstate["k1"] = "open"
    /\ cstate["k2"] = "none"
    /\ cin["k1"] = <<>>
    /\ frames = 2
    /\ \E c \in Displays :
          /\ dstate[c] = "open"
          /\ Len(dsent[c]) = 3
          /\ dsent[c][2] = [type |-> "navigate-to", slideIndex |-> 3]
          /\ dsent[c][3] = [type |-> "play-pause", isPlaying |-> TRUE]

\* the positions of the listing dir that hold a file whose lower-cased
\* extension is allow-listed
AllowedPositions(dir) ==
    {i \in 1..Len(dir) : ToLowerCase(dir[i].ext) \in AllowedExtensions}

\* the k-th of these positions, in listing order
KthAllowed(dir, k) ==
    CHOOSE i \in AllowedPositions(dir) :
        Cardinality({j \in AllowedPositions(dir) : j < i}) = k - 1

\* catalog is what load() is to build from the listing dir
LoadedFrom(catalog, dir) ==
    /\ Len(catalog) = Cardinality(AllowedPositions(dir))
    /\ \A k \in 1..Len(catalog) :
          /\ catalog[k].id = k
          /\ catalog[k].order = k
          /\ catalog[k].filename = dir[KthAllowed(dir, k)]
          /\ catalog[k].title = dir[KthAllowed(dir, k)].base
          /\ catalog[k].description = ""
          /\ catalog[k].active = TRUE

\* C16: when loadImages completes, the catalog holds one record per file of
\* the image directory with an allow-listed lower-cased extension, in
\* listing order, the k-th with id k and order k, or, the directory being
\* unreadable, no record; loadImages always completes, and in both cases
\* start-up goes on to serve requests (loaded).
LoadBuildsCatalog ==
    [][
        /\ ~loaded => ENABLED LoadImagesDone
        /\ (~loaded /\ loaded')
                => /\ \/ LoadedFrom(images', imageDir)
                      \/ images' = <<>>
                   /\ imageDir' = imageDir
      ]_vars

\* C16 witness: the catalog loaded from a.jpg, notes.txt, b.PNG and a file
\* an upload left without extension holds a.jpg as record 1 and b.PNG as
\* record 2, and nothing else.
LoadBuildsCatalogWitness ==
    /\ loaded
    /\ Len(imageDir) = 4
    /\ \A r \in Slots : reqs[r].pc \in {"idle", "done"}
    /\ Len(images) = 2
    /\ images[1].id = 1
    /\ images[1].filename = FileName("a", ".jpg")
    /\ images[2].id = 2
    /\ images[2].order = 2
    /\ images[2].filename = FileName("b", ".PNG")
    /\ "updated" \notin DOMAIN images[2]

\* the step ends the thumbnail generation of upload r without a thumbnail
ThumbnailFails(r) ==
    /\ reqs[r].kind = "upload"
    /\ reqs[r].pc = "thumb"
    /\ reqs'[r].pc = "done"
    /\ loaded'
    /\ reqs[r].imageData.filename \notin thumbs'

\* C17: when the thumbnail of an upload cannot be generated, the upload is
\* still answered with success and the record, whose active is true; the
\* catalog is left as it is, with the record in it when no other request
\* has been handled, and every open display socket is sent image-uploaded.
ThumbnailFailureTolerated ==
    [][\A r \in Slots :
         ThumbnailFails(r)
            => /\ Responds(r, "upload", 200)
               /\ response'[1].body =
                    [success |-> TRUE, image |-> reqs[r].imageData]
               /\ reqs[r].imageData.active = TRUE
               /\ images' = images
               /\ (\A q \in Slots \ {r} : reqs[q].pc = "idle")
                    => \E i \in 1..Len(images') : images'[i] = reqs[r].imageData
               /\ \A c \in Displays :
                    dstate[c] = "open"
                        => dsent'[c] = Append(dsent[c],
                                [type |-> "image-uploaded",
                                 image |-> reqs[r].imageData])
      ]_vars

\* C17 witness: the upload of wide.jpg, whose cover crop fails, has been
\* answered with success; there is no thumbnail, the record is in the
\* catalog with active true and an open display socket holds the event.
ThumbnailFailureToleratedWitness ==
    /\ response # NoResponse
    /\ response[1].kind = "upload"
    /\ response[1].status = 200
    /\ response[1].body.image.originalname = FileName("wide", ".jpg")
    /\ response[1].body.image.filename \notin thumbs
    /\ \E i \in 1..Len(images) :
          images[i] = response[1].body.image /\ images[i].active = TRUE
    /\ \E c \in Displays :
          /\ dstate[c] = "open"
          /\ dsent[c][Len(dsent[c])] =
                [type |-> "image-uploaded", image |-> response[1].body.image]

\* C18: when a DELETE is answered with success, no record of the catalog has
\* the requested id, and neither the file of the record it named nor its
\* thumbnail exists.
DeleteRemovesFiles ==
    [][\A r \in Slots :
         Responds(r, "delete", 200)
            => /\ \A i \in 1..Len(images') : <<images'[i].id>> # reqs[r].imageId
               /\ ~InDir(imageDir', reqs[r].image.filename)
               /\ reqs[r].image.filename \notin thumbs'
      ]_vars

\* C19: the thumbnail of an upload is there after its generation exactly
\* when the stored file can be read and the cover crop or, that failing, the
\* resize fitting inside succeeds on it: generation fails only when both
\* attempts fail.
ThumbnailRetried ==
    [][\A r \in Slots :
         (reqs[r].kind = "upload" /\ reqs[r].pc = "thumb"
            /\ reqs'[r].pc = "done" /\ loaded')
            => (reqs[r].imageData.filename \in thumbs'
                    <=> /\ InDir(imageDir, reqs[r].imageData.path)
                        /\ \/ CoverSucceeds(reqs[r].imageData)
                           \/ InsideSucceeds(reqs[r].imageData))
      ]_vars

\* the step is the one in which the handler of DELETE request r splices
SplicesFor(r) ==
    /\ reqs'[r].kind = "delete"
    /\ reqs'[r].pc = "mkdir"
    /\ reqs[r].pc \in {"idle", "unlink", "unlinkThumb"}

\* C20: whatever requests are handled meanwhile, the splice of a DELETE
\* removes from the catalog the records with the requested id and no other
\* record, and when the DELETE is answered with success no record has the
\* requested id.
DeleteRemovesRequested ==
    [][\A r \in Slots :
         /\ SplicesFor(r)
                => images' = SelectSeq(images,
                                LAMBDA img : <<img.id>> # reqs'[r].imageId)
         /\ Responds(r, "delete", 200)
                => \A i \in 1..Len(images') : <<images'[i].id>> # reqs[r].imageId
      ]_vars

\* C21: whenever no mutation request is in flight, the catalog file holds
\* exactly the in-memory catalog: every upload, update and delete that was
\* answered with success is in the file, also when a save fails or when the
\* saves of overlapping requests complete in another order than they started.
CatalogFileMirrors ==
    (/\ loaded
     /\ \A r \in Slots : reqs[r].pc \in {"idle", "done"}
     /\ response # NoResponse
     /\ response[1].status = 200)
        => catalogFile = <<images>>

\* C29: a PUT that is answered with success answers with the record that has
\* the requested id as this request merged it, and every open display socket
\* is sent that same record as image-updated, whatever other requests are
\* handled while the catalog is being saved.
UpdateReportsRequested ==
    [][\A r \in Slots :
         Responds(r, "put", 200)
            => /\ "image" \in DOMAIN response'[1].body
               /\ \A f \in DOMAIN reqs[r].body :
                      response'[1].body.image[f] = reqs[r].body[f]
               /\ "id" \notin DOMAIN reqs[r].body
                      => <<response'[1].body.image.id>> = reqs[r].imageId
               /\ \A c \in Displays :
                      dstate[c] = "open"
                         => dsent'[c][Len(dsent'[c])] =
                                [type |-> "image-updated",
                                 image |-> response'[1].body.image]
      ]_vars

\* the catalog imgs holds a record of the file name
Listed(imgs, name) == \E i \in 1..Len(imgs) : imgs[i].filename = name

\* C30: a record enters the catalog only when its backing file is completely
\* stored in the images directory, no request still receiving it; and while
\* an upload is being received the server is not blocked: a request that
\* arrives is handled and the handlers in flight resume.
StoredBeforeListed ==
    [][
        /\ \A i \in 1..Len(images') :
              ~Listed(images, images'[i].filename)
                 => /\ InDir(imageDir', images'[i].filename)
                    /\ \A r \in Slots :
                          reqs'[r].pc = "receiving"
                             => UploadName(r) # images'[i].filename
        /\ (\E r \in Slots : reqs[r].pc = "receiving")
              => /\ \A q \in Slots, param \in IdParams :
                       CanStart(q) => ENABLED DeleteStart(q, param)
                 /\ \A q \in Slots :
                       reqs[q].pc = "mkdir" => ENABLED SaveMkdir(q)
                 /\ \A q \in Slots :
                       (reqs[q].kind = "put" /\ reqs[q].pc = "write")
                          => ENABLED UpdateSaved(q)
    ]_vars

\* C30 witness: the upload in slot 1 is still being received, its file is
\* in the images directory without a record, and meanwhile a PUT that
\* arrived after it has been answered with success.
StoredBeforeListedWitness ==
    /\ reqs[1].pc = "receiving"
    /\ InDir(imageDir, UploadName(1))
    /\ ~Listed(images, UploadName(1))
    /\ response # NoResponse
    /\ response[1].slot = 2
    /\ response[1].kind = "put"
    /\ response[1].status = 200

\* a performUpdate is in progress on instance i: it has started and has
\* neither returned nor thrown
InProgress(i) == upd[i].pc \notin {"none", "complete"}

\* C22: at most one update sequence is in progress at any time, whichever
\* way the updates are started: from the periodic checker, the command line
\* or POST /api/update/perform.
OneUpdateAtATime == Cardinality({i \in Updaters : InProgress(i)}) <= 1

\* the last status broadcast by the performUpdate of instance i
LastStatus(i) == upd[i].sent[Len(upd[i].sent)]

\* C23: a performUpdate that found an update to install has, when it is
\* over, broadcast exactly one final status, 'complete' or 'error', and that
\* as its last status.
EndsInCompleteOrError ==
    \A i \in Updaters :
        (/\ upd[i].pc \in {"none", "complete"}
         /\ upd[i].sent # <<>>
         /\ upd[i].result # <<[success |-> FALSE, error |-> "No update available"]>>)
            => /\ LastStatus(i).type \in {"complete", "error"}
               /\ Cardinality({k \in 1..Len(upd[i].sent) :
                        upd[i].sent[k].type \in {"complete", "error"}}) = 1

\* C24: when performUpdate returns 'Update failed, restored from backup',
\* the backup that was restored is the one this call created.
RestoresOwnBackup ==
    \A i \in Updaters :
        (/\ upd[i].result # Null
         /\ "message" \in DOMAIN upd[i].result[1]
         /\ upd[i].result[1].message = "Update failed, restored from backup")
            => /\ upd[i].backupPath # Null
               /\ upd[i].restored = upd[i].backupPath

\* C25: when performUpdate is over on an instance and has not completed an
\* update (after which the system restarts), updateInProgress is false.
FlagResetWhenOver ==
    \A i \in Updaters :
        (/\ upd[i].created
         /\ upd[i].pc = "none"
         /\ upd[i].sent # <<>> => LastStatus(i).type # "complete")
            => ~upd[i].updateInProgress

VersionTuple(version) ==
    LET pieces == Split(ReplaceV(version))
    IN  [k \in 1..Len(pieces) |-> Decimal(pieces[k])]

Component(tuple, k) == IF k \in 1..Len(tuple) THEN tuple[k] ELSE 0

\* tuple a is greater than tuple b: at the first component where they differ
TupleGreater(a, b) ==
    \E k \in 1..(Len(a) + Len(b)) :
        /\ Component(a, k) > Component(b, k)
        /\ \A j \in 1..(k - 1) : Component(a, j) = Component(b, j)

\* C27: the check for updates reports an update exactly when the latest
\* version is greater than the current one as tuples of integers, a leading
\* v ignored and missing components read as 0; the comparison is
\* irreflexive, asymmetric and transitive.
NewerIsTupleOrder ==
    \A i \in Updaters :
        (upd[i].updateCheck # Null /\ "latestVersion" \in DOMAIN upd[i].updateCheck[1])
            => LET check == upd[i].updateCheck[1]
                   latest == check.latestVersion
                   current == check.currentVersion
               IN  /\ check.updateAvailable
                        <=> TupleGreater(VersionTuple(latest), VersionTuple(current))
                   /\ (\A k \in 1..(Len(latest) + Len(current)) :
                          Component(VersionTuple(latest), k)
                              = Component(VersionTuple(current), k))
                        => ~check.updateAvailable
                   /\ ~IsNewerVersion(latest, latest)
                   /\ check.updateAvailable => ~IsNewerVersion(current, latest)
                   /\ \A other \in VersionStrings :
                          (check.updateAvailable /\ IsNewerVersion(current, other))
                             => IsNewerVersion(latest, other)

\* C27 witness: an update is reported for a latest version with a leading v
\* and fewer components than the current version has.
NewerIsTupleOrderWitness ==
    /\ upd["u1"].updateCheck # Null
    /\ "latestVersion" \in DOMAIN upd["u1"].updateCheck[1]
    /\ upd["u1"].updateCheck[1].updateAvailable
    /\ upd["u1"].updateCheck[1].latestVersion[1] = "v"
    /\ Len(Parts(upd["u1"].updateCheck[1].latestVersion))
          < Len(Parts(upd["u1"].updateCheck[1].currentVersion))

\* the step is the one in which installUpdate of instance i returns or throws
Installs(i) == upd[i].pc = "install" /\ upd'[i].pc # "install"

\* C28: installUpdate copies nothing of the update into the images,
\* thumbnails, logs and node_modules directories: images and thumbnails are
\* left unchanged, node_modules is changed by npm install only, which makes
\* it what the new package.json asks for, and logs by the log of the update
\* system only.
InstallKeepsData ==
    [][\A i \in Updaters :
         Installs(i)
            => /\ root'["images"] = root["images"]
               /\ root'["thumbnails"] = root["thumbnails"]
               /\ root'["node_modules"] \in
                      {root["node_modules"], {upd[i].updatePath[1].deps}}
               /\ root'["logs"] \in {{"Update installed"}, {"Restoring from backup..."}}
      ]_vars

\* C28 as stated: installUpdate leaves the four directories unchanged.
InstallKeepsFourDirectories ==
    [][\A i \in Updaters :
         Installs(i)
            => \A item \in {"images", "thumbnails", "logs", "node_modules"} :
                   root'[item] = root[item]
      ]_vars

\* C28 witness: an update that holds images, thumbnails, logs and
\* node_modules directories at its top level has been installed; its other
\* items were copied, the images and thumbnails are those of the user.
InstallKeepsDataWitness ==
    \E i \in Updaters :
        /\ upd[i].pc = "configure"
        /\ {"images", "thumbnails", "logs", "node_modules"}
              \subseteq upd[i].updatePath[1].items
        /\ root["README.md"] = {"update"}
        /\ "update" \in root["server"]
        /\ root["images"] = {"user"}
        /\ root["thumbnails"] = {"user"}
====
